---- MODULE Spec2Model ----
(***************************************************************************)
(* A model of sopht-mpi's domain-decomposition layer:                      *)
(*   - MPIConstruct3D            (sopht_mpi/utils/mpi_utils_3d.py)         *)
(*   - MPIGhostCommunicator3D    (sopht_mpi/utils/mpi_utils_3d.py)         *)
(*   - MPIFieldCommunicator3D    (sopht_mpi/utils/mpi_utils_3d.py)         *)
(*   - the MPI-wrapped 2D outplane curl kernel                             *)
(*     (sopht_mpi/numeric/.../outplane_field_curl_mpi_2d.py)               *)
(* Each component has its own specification over the shared variables:     *)
(* SpecTopo, SpecGhost, SpecField, SpecCurl.                               *)
(***************************************************************************)
EXTENDS Integers, Sequences, FiniteSets, TLC

VARIABLES
    \* ---- MPIConstruct3D.__init__ ----
    ctor_pc,            \* position inside the constructor / its outcome
    world_size,         \* MPI.COMM_WORLD.Get_size()
    rank_distribution_arg, \* the rank_distribution argument (<<>> is None)
    rank_distribution,  \* self.rank_distribution
    global_grid_size,   \* self.global_grid_size  <<z, y, x>>
    grid_topology,      \* self.grid_topology     <<z, y, x>>
    local_grid_size,    \* self.local_grid_size   <<z, y, x>>
    periodic_flag,      \* periods of the Cartesian communicator
    cart_created,       \* self.grid exists
    \* ---- MPIGhostCommunicator3D and the ranks using it ----
    ghost_size,         \* self.ghost_size
    local_field,        \* [rank -> [field id -> [cell -> value]]]
    comm_requests,      \* [rank -> sequence of posted requests]
    completed,          \* requests whose transfer has happened: <<rank, index>>
    eager_protocol,     \* the MPI build copies a send buffer when it is posted
    eager_buffer,       \* [rank -> [field id -> field as it was when posted]]
    pc,                 \* [rank -> position of the rank's program]
    \* ---- MPIFieldCommunicator3D and the ranks using it ----
    master_rank,        \* self.master_rank
    slave_ranks,        \* self.slave_ranks, in the order the loops visit them
    loop_pos,           \* position of the master's loop over slave_ranks
    global_field,       \* the master's global array, flattened (ravel)
    ref_global_field,   \* the master's copy of the field it scattered
    in_flight,          \* messages sent and not yet received
    \* ---- gen_outplane_field_curl_pyst_mpi_kernel_2d and its kernel ----
    gen_pc,             \* position inside the generator / its outcome
    kernel_support,     \* the generator's kernel_support attribute (0: unset)
    returned_kernel_support,  \* [rank -> the attribute of the returned kernel]
    invocation,         \* which invocation of the returned kernel is running
    call_log,           \* [rank -> the calls the wrapper has made, in order]
    \* ---- the lifetime of one communicator object on one rank ----
    comm_class,         \* the class constructed: "ghost" or "field"
    ghost_size_arg,     \* twice the ghost_size argument (3 is ghost_size 1.5)
    on_master,          \* mpi_construct.rank == master_rank
    life_pc,            \* position inside __init__ / the object's outcome
    committed_types,    \* the descriptors created and committed, in order
    freed_types,        \* the descriptors released, in order
    \* ---- MPI's message sequence across several rounds of exchange ----
    retired,            \* [rank -> [kind -> [peer -> requests already waited for]]]
    \* ---- the Lagrangian field communicator: rank_and_map ----
    map_pc,             \* position inside the collective rank_and_map
    marker_positions,   \* the master's positions_global, one <<z, y, x>> per marker
    rank_positions,     \* [rank -> the positions the rank received]
    classified,         \* the ranks that have classified the markers
    local_indices,      \* [rank -> global indices of the markers the rank owns]
    scatter_map,        \* the master's gathered [rank -> local_indices]
    \* ---- forcing grids and the flow interactor ----
    forcing_grid_cls,   \* the forcing grid class asked for
    grid_dim_arg,       \* the grid_dim argument
    body,               \* the immersed body (rod or rigid body)
    interactor_pc,      \* [rank -> "init", "constructed" or "raised"]
    forcing_grid,       \* [rank -> class of the forcing grid the interactor holds]
    grid_object,        \* the fields of the real forcing grid
    body_flow_forces,   \* [rank -> 3 x columns]
    body_flow_torques,  \* [rank -> 3 x columns]
    lag_grid_forcing_field,  \* the marker forces of the last transfer
    transfers,          \* transfers made
    \* ---- FlowForces.apply_forces ----
    system,             \* the rod or rigid body handed to apply_forces
    system_before,      \* the same before the first call
    apply_pc,           \* position inside apply_forces
    apply_log,          \* the statements of apply_forces executed so far
    flow_history,       \* the <<forces, torques>> each call computed
    \* ---- TwoDimensionalCylinderForcingGrid.compute_lag_grid_velocity_field ----
    velocity_collection, \* the cylinder's velocity
    omega_collection,   \* the cylinder's angular velocity, in its local frame
    velocity_field,     \* [marker -> the grid's velocity at the marker]
    velocity_pc,        \* "stale": the body moved since / "computed" / "none"
    \* ---- every rank making the same calls of the ghost communicator ----
    program             \* the calls each rank makes, in order

topoVars == <<ctor_pc, world_size, rank_distribution_arg, rank_distribution,
              global_grid_size, grid_topology, local_grid_size, periodic_flag,
              cart_created>>

ghostVars == <<ghost_size, local_field, comm_requests, completed,
               eager_protocol, eager_buffer, pc>>

fieldVars == <<master_rank, slave_ranks, loop_pos, global_field,
               ref_global_field, in_flight>>

curlVars == <<gen_pc, kernel_support, returned_kernel_support, invocation,
              call_log>>

lifeVars == <<comm_class, ghost_size_arg, on_master, life_pc, committed_types, freed_types>>

queueVars == <<retired>>

markerVars == <<map_pc, marker_positions, rank_positions, classified, local_indices, scatter_map>>

forcingVars == <<forcing_grid_cls, grid_dim_arg, body, interactor_pc, forcing_grid, grid_object,
                 body_flow_forces, body_flow_torques, lag_grid_forcing_field, transfers>>

applyVars == <<system, system_before, apply_pc, apply_log, flow_history>>

velocityVars == <<velocity_collection, omega_collection, velocity_field, velocity_pc>>

matchVars == <<program>>

vars == <<topoVars, ghostVars, fieldVars, curlVars, lifeVars, queueVars, markerVars, forcingVars, applyVars, velocityVars, matchVars>>

\* ------------------------------------------------------------------ bounds
MaxWorld == 4
MaxGrid == 3
MaxRankDist == 2

\* ----------------------------------------------------------- program constants
grid_dim == 3
PROC_NULL == -1

Axes == 1..grid_dim

\* =========================================================================
\*  MPIConstruct3D
\* =========================================================================

Prod(t) == t[1] * t[2] * t[3]

\* product of the non-zero entries of dims
ProdNonZero(dims) ==
    (IF dims[1] = 0 THEN 1 ELSE dims[1]) *
    (IF dims[2] = 0 THEN 1 ELSE dims[2]) *
    (IF dims[3] = 0 THEN 1 ELSE dims[3])

ZeroAxes(dims) == {a \in Axes : dims[a] = 0}

\* largest b with b * b <= m and b dividing m
SmallFactor(m) == CHOOSE b \in 1..m :
    /\ m % b = 0 /\ b * b <= m
    /\ \A c \in 1..m : (m % c = 0 /\ c * c <= m) => c <= b

\* MPI_Dims_create is defined when the fixed entries divide nnodes and,
\* with no free entry, multiply to nnodes.
ComputeDimsDefined(nnodes, dims) ==
    /\ nnodes % ProdNonZero(dims) = 0
    /\ (ZeroAxes(dims) = {} => ProdNonZero(dims) = nnodes)

\* a Compute_dims that leaves one process on every free axis
ComputeDims_no_fill(nnodes, dims) ==
    [a \in Axes |-> IF dims[a] # 0 THEN dims[a] ELSE 1]

\* MPI.Compute_dims(nnodes, dims): the non-zero entries are kept, the zero
\* entries are filled with a balanced factorisation of what is left, in
\* non-increasing order.
ComputeDims(nnodes, dims) ==
    LET m == nnodes \div ProdNonZero(dims)
        free == ZeroAxes(dims)
        first == CHOOSE a \in free : \A b \in free : a <= b
    IN  [a \in Axes |->
            IF dims[a] # 0 THEN dims[a]
            ELSE IF Cardinality(free) = 1 THEN m
            ELSE IF Cardinality(free) = 2
                 THEN (IF a = first THEN m \div SmallFactor(m) ELSE SmallFactor(m))
            ELSE \* three free axes: only reachable without the "1 in" check
                 (IF a = first THEN m ELSE 1)]

\* a divisibility check that looks at the first axis only
UnevenDomainFirstAxis(g, t) == g[1] % t[1] # 0

\* np.any(self.global_grid_size % self.grid_topology)
UnevenDomain(g, t) == \E a \in Axes : g[a] % t[a] # 0

\* the constructor without the fft-alignment check
CheckRankDistributionUnchecked ==
    /\ ctor_pc = "check_rank_distribution"
    /\ rank_distribution' =
         IF rank_distribution_arg = <<>> THEN <<0, 0, 1>>
         ELSE rank_distribution_arg
    /\ ctor_pc' = "compute_dims"
    /\ UNCHANGED <<world_size, rank_distribution_arg, global_grid_size,
                   grid_topology, local_grid_size, periodic_flag, cart_created>>

\* lines 30-41: default rank distribution and the fft-alignment check
CheckRankDistribution ==
    /\ ctor_pc = "check_rank_distribution"
    /\ rank_distribution' =
         IF rank_distribution_arg = <<>> THEN <<0, 0, 1>>
         ELSE rank_distribution_arg
    /\ ctor_pc' = IF \E a \in Axes : rank_distribution'[a] = 1
                  THEN "compute_dims" ELSE "ValueError"
    /\ UNCHANGED <<world_size, rank_distribution_arg, global_grid_size,
                   grid_topology, local_grid_size, periodic_flag, cart_created>>

\* lines 42-44
ComputeDimsStep ==
    /\ ctor_pc = "compute_dims"
    /\ IF ComputeDimsDefined(world_size, rank_distribution)
       THEN /\ grid_topology' = ComputeDims(world_size, rank_distribution)
            /\ ctor_pc' = "check_domain"
       ELSE /\ grid_topology' = grid_topology
            /\ ctor_pc' = "MPIError"
    /\ UNCHANGED <<world_size, rank_distribution_arg, rank_distribution,
                   global_grid_size, local_grid_size, periodic_flag, cart_created>>

\* lines 46-57
CheckDomainDistribution ==
    /\ ctor_pc = "check_domain"
    /\ IF UnevenDomain(global_grid_size, grid_topology)
       THEN /\ ctor_pc' = "RuntimeError"
            /\ local_grid_size' = local_grid_size
       ELSE /\ ctor_pc' = "create_cart"
            /\ local_grid_size' =
                 [a \in Axes |-> global_grid_size[a] \div grid_topology[a]]
    /\ UNCHANGED <<world_size, rank_distribution_arg, rank_distribution,
                   global_grid_size, grid_topology, periodic_flag, cart_created>>

\* lines 60-72
CreateCart ==
    /\ ctor_pc = "create_cart"
    /\ cart_created' = TRUE
    /\ ctor_pc' = "constructed"
    /\ UNCHANGED <<world_size, rank_distribution_arg, rank_distribution,
                   global_grid_size, grid_topology, local_grid_size, periodic_flag>>

RankDistributionArgs ==
    {<<>>} \cup {<<a, b, c>> : a \in 0..MaxRankDist, b \in 0..MaxRankDist,
                               c \in 0..MaxRankDist}

GridSizes == {<<a, b, c>> : a \in 1..MaxGrid, b \in 1..MaxGrid, c \in 1..MaxGrid}

InitTopo ==
    /\ ctor_pc = "check_rank_distribution"
    /\ world_size \in 1..MaxWorld
    /\ rank_distribution_arg \in RankDistributionArgs
    /\ rank_distribution = <<>>
    /\ global_grid_size \in GridSizes
    /\ grid_topology = <<>>
    /\ local_grid_size = <<>>
    /\ periodic_flag \in BOOLEAN
    /\ cart_created = FALSE
    /\ ghost_size = 0
    /\ local_field = <<>>
    /\ comm_requests = <<>>
    /\ completed = {}
    /\ eager_protocol = FALSE
    /\ eager_buffer = <<>>
    /\ pc = <<>>
    /\ master_rank = 0
    /\ slave_ranks = <<>>
    /\ loop_pos = 0
    /\ global_field = <<>>
    /\ ref_global_field = <<>>
    /\ in_flight = <<>>
    /\ gen_pc = "generate"
    /\ kernel_support = 0
    /\ returned_kernel_support = <<>>
    /\ invocation = 0
    /\ call_log = <<>>
    /\ program = <<>>
    /\ velocity_collection = <<>>
    /\ omega_collection = <<>>
    /\ velocity_field = <<>>
    /\ velocity_pc = "none"
    /\ system = <<>>
    /\ system_before = <<>>
    /\ apply_pc = "none"
    /\ apply_log = <<>>
    /\ flow_history = <<>>
    /\ forcing_grid_cls = "none"
    /\ grid_dim_arg = 0
    /\ body = <<>>
    /\ interactor_pc = <<>>
    /\ forcing_grid = <<>>
    /\ grid_object = <<>>
    /\ body_flow_forces = <<>>
    /\ body_flow_torques = <<>>
    /\ lag_grid_forcing_field = <<>>
    /\ transfers = 0
    /\ map_pc = "none"
    /\ marker_positions = <<>>
    /\ rank_positions = <<>>
    /\ classified = {}
    /\ local_indices = <<>>
    /\ scatter_map = <<>>
    /\ retired = <<>>
    /\ comm_class = "none"
    /\ ghost_size_arg = 0
    /\ on_master = FALSE
    /\ life_pc = "none"
    /\ committed_types = <<>>
    /\ freed_types = <<>>

NextTopo ==
    \/ CheckRankDistribution /\ UNCHANGED <<ghostVars, fieldVars, curlVars, lifeVars, queueVars, markerVars, forcingVars, applyVars, velocityVars, matchVars>>
    \/ ComputeDimsStep /\ UNCHANGED <<ghostVars, fieldVars, curlVars, lifeVars, queueVars, markerVars, forcingVars, applyVars, velocityVars, matchVars>>
    \/ CheckDomainDistribution /\ UNCHANGED <<ghostVars, fieldVars, curlVars, lifeVars, queueVars, markerVars, forcingVars, applyVars, velocityVars, matchVars>>
    \/ CreateCart /\ UNCHANGED <<ghostVars, fieldVars, curlVars, lifeVars, queueVars, markerVars, forcingVars, applyVars, velocityVars, matchVars>>

SpecTopo == InitTopo /\ [][NextTopo]_vars

\* ---- properties of the constructor ----

\* the process grid has been computed
DimsComputed == grid_topology # <<>>

SomeAxisNotDivisible ==
    \E a \in Axes : global_grid_size[a] % grid_topology[a] # 0

\* C9: an uneven decomposition ends the constructor with RuntimeError and
\* without a Cartesian communicator; a constructed topology has
\* local_grid_size * grid_topology = global_grid_size on every axis.
C9_UnevenDomainFails ==
    /\ (DimsComputed /\ SomeAxisNotDivisible) =>
          (ctor_pc \in {"check_domain", "RuntimeError"} /\ ~cart_created)
    /\ ctor_pc = "RuntimeError" => SomeAxisNotDivisible
    /\ ctor_pc \in {"create_cart", "constructed"} =>
          \A a \in Axes : local_grid_size[a] * grid_topology[a] = global_grid_size[a]

C9_Witness ==
    /\ ctor_pc = "RuntimeError"
    /\ global_grid_size[1] % grid_topology[1] = 0
    /\ global_grid_size[2] % grid_topology[2] # 0

\* C10: a rank distribution without a unit axis ends the constructor with
\* ValueError before the process grid is computed; every constructed
\* topology has an axis with exactly one process.
C10_UnitAxisRequired ==
    /\ (rank_distribution # <<>> /\ \A a \in Axes : rank_distribution[a] # 1) =>
          (ctor_pc = "ValueError" /\ ~DimsComputed /\ ~cart_created)
    /\ ctor_pc = "ValueError" => (~DimsComputed /\ ~cart_created)
    /\ ctor_pc = "constructed" => \E a \in Axes : grid_topology[a] = 1

C10_Witness ==
    /\ ctor_pc = "ValueError"
    /\ rank_distribution = <<2, 0, 2>>

\* the entries of rank_distribution that are not zero are the process counts
\* of their axes, and the zero entries are sized so that the grid holds
\* every process
ZeroEntriesAutoSized ==
    /\ \A a \in Axes : rank_distribution[a] # 0 =>
            grid_topology[a] = rank_distribution[a]
    /\ Prod(grid_topology) = world_size

\* C21 as stated: the zero entries of rank_distribution are auto-sized from
\* the number of processes and the last axis of the process grid is 1.
C21_ZerosAutoSized_LastAxisOne ==
    DimsComputed => (ZeroEntriesAutoSized /\ grid_topology[grid_dim] = 1)

\* C21: the zero entries of rank_distribution are auto-sized from the number
\* of processes; the last axis of the process grid is 1 when no
\* rank_distribution is given (the default is [0, 0, 1]), and with a given
\* rank_distribution some axis, not always the last, is 1.
C21_ZerosAutoSized ==
    DimsComputed =>
        /\ ZeroEntriesAutoSized
        /\ rank_distribution_arg = <<>> => grid_topology[grid_dim] = 1
        /\ \E a \in Axes : grid_topology[a] = 1

C21_Witness ==
    /\ ctor_pc = "constructed"
    /\ rank_distribution_arg = <<>>
    /\ world_size = 4
    /\ grid_topology = <<2, 2, 1>>


\* =========================================================================
\*  Cartesian communicator (self.grid): ranks, coordinates, neighbours
\* =========================================================================

Ranks == 0..(Prod(grid_topology) - 1)

\* grid.Get_coords(rank): row-major rank order, <<z, y, x>>, zero-based
Get_coords(rank) ==
    <<rank \div (grid_topology[2] * grid_topology[3]),
      (rank \div grid_topology[3]) % grid_topology[2],
      rank % grid_topology[3]>>

Get_cart_rank(coords) ==
    (coords[1] * grid_topology[2] + coords[2]) * grid_topology[3] + coords[3]

\* a shift that wraps around on every axis, periodic or not
ShiftedRank_wrapping(rank, a, disp) ==
    LET c == Get_coords(rank)
    IN  Get_cart_rank([c EXCEPT ![a] = (c[a] + disp) % grid_topology[a]])

\* the rank displaced by disp along axis a, PROC_NULL past a non-periodic end
ShiftedRank(rank, a, disp) ==
    LET c == Get_coords(rank)
        moved == c[a] + disp
    IN  IF moved \in 0..(grid_topology[a] - 1)
        THEN Get_cart_rank([c EXCEPT ![a] = moved])
        ELSE IF periodic_flag
        THEN Get_cart_rank([c EXCEPT ![a] = moved % grid_topology[a]])
        ELSE PROC_NULL

\* self.previous_grid_along[dim], self.next_grid_along[dim] = grid.Shift(dim, 1)
previous_grid_along(rank, a) == ShiftedRank(rank, a, -1)

next_grid_along(rank, a) == ShiftedRank(rank, a, 1)

\* =========================================================================
\*  MPIGhostCommunicator3D
\* =========================================================================

z_axis == 1
y_axis == 2
x_axis == 3

\* self.field_size = mpi_construct.local_grid_size + 2 * self.ghost_size
field_size == [a \in Axes |-> local_grid_size[a] + 2 * ghost_size]

\* dtype_generator.Create_subarray(sizes, subsizes, starts)
Create_subarray(sizes, subsizes, starts) ==
    [sizes |-> sizes, subsizes |-> subsizes, starts |-> starts]

send_next_along_x_type == Create_subarray(field_size,
    <<field_size[1], field_size[2], ghost_size>>,
    <<0, 0, field_size[3] - 2 * ghost_size>>)

recv_next_along_x_type == Create_subarray(field_size,
    <<field_size[1], field_size[2], ghost_size>>,
    <<0, 0, field_size[3] - ghost_size>>)

\* a send descriptor that starts in the halo instead of the inner region
send_previous_along_x_type_from_halo == Create_subarray(field_size,
    <<field_size[1], field_size[2], ghost_size>>,
    <<0, 0, 0>>)

send_previous_along_x_type == Create_subarray(field_size,
    <<field_size[1], field_size[2], ghost_size>>,
    <<0, 0, ghost_size>>)

recv_previous_along_x_type == Create_subarray(field_size,
    <<field_size[1], field_size[2], ghost_size>>,
    <<0, 0, 0>>)

\* a send descriptor that starts where the receive descriptor does
send_next_along_y_type_from_halo == Create_subarray(field_size,
    <<field_size[1], ghost_size, field_size[3]>>,
    <<0, field_size[2] - ghost_size, 0>>)

send_next_along_y_type == Create_subarray(field_size,
    <<field_size[1], ghost_size, field_size[3]>>,
    <<0, field_size[2] - 2 * ghost_size, 0>>)

recv_next_along_y_type == Create_subarray(field_size,
    <<field_size[1], ghost_size, field_size[3]>>,
    <<0, field_size[2] - ghost_size, 0>>)

send_previous_along_y_type == Create_subarray(field_size,
    <<field_size[1], ghost_size, field_size[3]>>,
    <<0, ghost_size, 0>>)

recv_previous_along_y_type == Create_subarray(field_size,
    <<field_size[1], ghost_size, field_size[3]>>,
    <<0, 0, 0>>)

send_next_along_z_type == Create_subarray(field_size,
    <<ghost_size, field_size[2], field_size[3]>>,
    <<field_size[1] - 2 * ghost_size, 0, 0>>)

recv_next_along_z_type == Create_subarray(field_size,
    <<ghost_size, field_size[2], field_size[3]>>,
    <<field_size[1] - ghost_size, 0, 0>>)

send_previous_along_z_type == Create_subarray(field_size,
    <<ghost_size, field_size[2], field_size[3]>>,
    <<ghost_size, 0, 0>>)

recv_previous_along_z_type == Create_subarray(field_size,
    <<ghost_size, field_size[2], field_size[3]>>,
    <<0, 0, 0>>)

\* ---- what a subarray datatype addresses in a buffer ----

\* the cells of an array of the given shape
CellsOf(sizes) ==
    {<<z, y, x>> : z \in 0..(sizes[1] - 1), y \in 0..(sizes[2] - 1),
                   x \in 0..(sizes[3] - 1)}

SubarrayCells(t) ==
    {<<z, y, x>> : z \in t.starts[1]..(t.starts[1] + t.subsizes[1] - 1),
                   y \in t.starts[2]..(t.starts[2] + t.subsizes[2] - 1),
                   x \in t.starts[3]..(t.starts[3] + t.subsizes[3] - 1)}

InSubarray(t, c) ==
    \A a \in Axes : c[a] \in t.starts[a]..(t.starts[a] + t.subsizes[a] - 1)

\* number of elements the datatype carries
SubarrayCount(t) == t.subsizes[1] * t.subsizes[2] * t.subsizes[3]

\* position of cell c in the datatype's (row-major) element order
ElemIndex(t, c) ==
    ((c[1] - t.starts[1]) * t.subsizes[2] + (c[2] - t.starts[2])) * t.subsizes[3]
        + (c[3] - t.starts[3])

\* the cell holding the datatype's k-th element
ElemCell(t, k) ==
    <<t.starts[1] + (k \div (t.subsizes[2] * t.subsizes[3])),
      t.starts[2] + ((k \div t.subsizes[3]) % t.subsizes[2]),
      t.starts[3] + (k % t.subsizes[3])>>

\* grid.Isend((local_field, type), dest=peer)
Isend(fld, type, peer) ==
    [kind |-> "send", fld |-> fld, type |-> type, peer |-> peer]

\* grid.Irecv((local_field, type), source=peer)
Irecv(fld, type, peer) ==
    [kind |-> "recv", fld |-> fld, type |-> type, peer |-> peer]

\* an init that posts, on the x axis, the send to the next neighbour first
ScalarFieldRequests_next_first(rank, fld) ==
    << Isend(fld, send_next_along_x_type, next_grid_along(rank, x_axis)),
       Irecv(fld, recv_next_along_x_type, next_grid_along(rank, x_axis)),
       Isend(fld, send_previous_along_x_type, previous_grid_along(rank, x_axis)),
       Irecv(fld, recv_previous_along_x_type, previous_grid_along(rank, x_axis)),
       Isend(fld, send_previous_along_y_type, previous_grid_along(rank, y_axis)),
       Irecv(fld, recv_next_along_y_type, next_grid_along(rank, y_axis)),
       Isend(fld, send_next_along_y_type, next_grid_along(rank, y_axis)),
       Irecv(fld, recv_previous_along_y_type, previous_grid_along(rank, y_axis)),
       Isend(fld, send_previous_along_z_type, previous_grid_along(rank, z_axis)),
       Irecv(fld, recv_next_along_z_type, next_grid_along(rank, z_axis)),
       Isend(fld, send_next_along_z_type, next_grid_along(rank, z_axis)),
       Irecv(fld, recv_previous_along_z_type, previous_grid_along(rank, z_axis)) >>

\* an init that expects the message for its upper x halo from the previous
\* neighbour
ScalarFieldRequests_recv_from_previous(rank, fld) ==
    << Isend(fld, send_previous_along_x_type, previous_grid_along(rank, x_axis)),
       Irecv(fld, recv_next_along_x_type, previous_grid_along(rank, x_axis)),
       Isend(fld, send_next_along_x_type, next_grid_along(rank, x_axis)),
       Irecv(fld, recv_previous_along_x_type, previous_grid_along(rank, x_axis)),
       Isend(fld, send_previous_along_y_type, previous_grid_along(rank, y_axis)),
       Irecv(fld, recv_next_along_y_type, next_grid_along(rank, y_axis)),
       Isend(fld, send_next_along_y_type, next_grid_along(rank, y_axis)),
       Irecv(fld, recv_previous_along_y_type, previous_grid_along(rank, y_axis)),
       Isend(fld, send_previous_along_z_type, previous_grid_along(rank, z_axis)),
       Irecv(fld, recv_next_along_z_type, next_grid_along(rank, z_axis)),
       Isend(fld, send_next_along_z_type, next_grid_along(rank, z_axis)),
       Irecv(fld, recv_previous_along_z_type, previous_grid_along(rank, z_axis)) >>

\* the twelve requests of one exchange_scalar_field_init, in posting order
ScalarFieldRequests(rank, fld) ==
    << \* Along X
       Isend(fld, send_previous_along_x_type, previous_grid_along(rank, x_axis)),
       Irecv(fld, recv_next_along_x_type, next_grid_along(rank, x_axis)),
       Isend(fld, send_next_along_x_type, next_grid_along(rank, x_axis)),
       Irecv(fld, recv_previous_along_x_type, previous_grid_along(rank, x_axis)),
       \* Along Y
       Isend(fld, send_previous_along_y_type, previous_grid_along(rank, y_axis)),
       Irecv(fld, recv_next_along_y_type, next_grid_along(rank, y_axis)),
       Isend(fld, send_next_along_y_type, next_grid_along(rank, y_axis)),
       Irecv(fld, recv_previous_along_y_type, previous_grid_along(rank, y_axis)),
       \* Along Z
       Isend(fld, send_previous_along_z_type, previous_grid_along(rank, z_axis)),
       Irecv(fld, recv_next_along_z_type, next_grid_along(rank, z_axis)),
       Isend(fld, send_next_along_z_type, next_grid_along(rank, z_axis)),
       Irecv(fld, recv_previous_along_z_type, previous_grid_along(rank, z_axis)) >>

\* ---- MPI point-to-point semantics ----

\* a request to or from MPI.PROC_NULL is complete as soon as it is posted
RequestComplete(rank, i) ==
    \/ comm_requests[rank][i].peer = PROC_NULL
    \/ <<rank, i>> \in completed

\* how many requests of this kind and peer the rank has waited for and
\* removed from its queue in earlier calls of exchange_finalise
RetiredCount(rank, kind, peer) ==
    IF rank \in DOMAIN retired THEN retired[rank][kind][peer] ELSE 0

\* how many requests of the same kind and peer rank posted before request i
Ordinal(rank, i) ==
    RetiredCount(rank, comm_requests[rank][i].kind, comm_requests[rank][i].peer)
    + Cardinality({j \in 1..(i - 1) :
        /\ comm_requests[rank][j].kind = comm_requests[rank][i].kind
        /\ comm_requests[rank][j].peer = comm_requests[rank][i].peer})

\* no tags: the k-th send from src to dst matches the k-th receive dst posted
\* for src (non-overtaking)
Matches(src, i, dst, j) ==
    /\ i \in 1..Len(comm_requests[src])
    /\ j \in 1..Len(comm_requests[dst])
    /\ comm_requests[src][i].kind = "send"
    /\ comm_requests[src][i].peer = dst
    /\ comm_requests[dst][j].kind = "recv"
    /\ comm_requests[dst][j].peer = src
    /\ Ordinal(src, i) = Ordinal(dst, j)

\* the receive buffer after the message has landed: element k of the send
\* datatype goes to element k of the receive datatype
Landed(recv_buf, recv_type, send_buf, send_type) ==
    [c \in DOMAIN recv_buf |->
        IF InSubarray(recv_type, c)
              /\ ElemIndex(recv_type, c) < SubarrayCount(send_type)
        THEN send_buf[ElemCell(send_type, ElemIndex(recv_type, c))]
        ELSE recv_buf[c]]

\* exchange_scalar_field_init(local_field), lines 194-281
exchange_scalar_field_init(rank, fld) ==
    /\ pc[rank] = "init"
    /\ comm_requests' = [comm_requests EXCEPT
                            ![rank] = @ \o ScalarFieldRequests(rank, fld)]
    /\ eager_buffer' = [eager_buffer EXCEPT ![rank][fld] = local_field[rank][fld]]
    /\ pc' = [pc EXCEPT ![rank] = "posted"]
    /\ UNCHANGED <<ghost_size, local_field, completed, eager_protocol>>

\* the receives a rank posted before request j have all landed
EarlierReceivesLanded(rank, j) ==
    \A k \in 1..(j - 1) :
        comm_requests[rank][k].kind = "recv" => RequestComplete(rank, k)

\* the send matched with receive j of rank dst, as a set (empty while the
\* sender has not posted it)
MatchingSends(dst, j) ==
    LET src == comm_requests[dst][j].peer
    IN  IF src = PROC_NULL THEN {}
        ELSE {i \in 1..Len(comm_requests[src]) : Matches(src, i, dst, j)}

\* The MPI library moves one matched message into receive j of rank dst.
\* The send buffer is read either when the send was posted (an eager build)
\* or when the message moves (a rendezvous build); the two differ only where
\* the buffer is also the target of a posted receive.  Each rank's receives
\* land in the order they were posted; the ranks progress independently.
Transfer(dst, j) ==
    /\ comm_requests[dst][j].kind = "recv"
    /\ <<dst, j>> \notin completed
    /\ EarlierReceivesLanded(dst, j)
    /\ \E i \in MatchingSends(dst, j) :
        LET src == comm_requests[dst][j].peer
            s == comm_requests[src][i]
            r == comm_requests[dst][j]
            send_buf == IF eager_protocol THEN eager_buffer[src][s.fld]
                        ELSE local_field[src][s.fld]
        IN  /\ local_field' = [local_field EXCEPT ![dst][r.fld] =
                                  Landed(@, r.type, send_buf, s.type)]
            /\ completed' = completed \cup {<<src, i>>, <<dst, j>>}
    /\ UNCHANGED <<ghost_size, comm_requests, eager_protocol, eager_buffer, pc>>

\* exchange_finalise(), lines 288-294: Waitall, then the queue is reset
exchange_finalise(rank) ==
    /\ pc[rank] = "posted"
    /\ \A i \in 1..Len(comm_requests[rank]) : RequestComplete(rank, i)
    /\ comm_requests' = [comm_requests EXCEPT ![rank] = <<>>]
    /\ completed' = {q \in completed : q[1] # rank}
    /\ pc' = [pc EXCEPT ![rank] = "done"]
    /\ UNCHANGED <<ghost_size, local_field, eager_protocol, eager_buffer>>

\* ---- the ranks' fields ----

\* a value that names the cell it was written in
Tag(rank, fld, c) == <<rank, fld, c[1], c[2], c[3]>>

TaggedField(rank, fld) == [c \in CellsOf(field_size) |-> Tag(rank, fld, c)]

MaxGhost == 2
MaxLocal == 2

GhostTopologies == {<<1, 1, 1>>, <<2, 1, 1>>, <<1, 2, 1>>, <<1, 1, 2>>}

Seq3 == {<<a, b, c>> : a \in 1..MaxLocal, b \in 1..MaxLocal, c \in 1..MaxLocal}

\* local block shapes, up to a reordering of the axes
LocalGridSizes == {t \in Seq3 : t[1] <= t[2] /\ t[2] <= t[3]}

\* the state after MPIConstruct3D and MPIGhostCommunicator3D were constructed
\* on every rank and each rank has filled its local field
InitGhost ==
    /\ ctor_pc = "constructed"
    /\ grid_topology \in GhostTopologies
    /\ world_size = Prod(grid_topology)
    /\ rank_distribution_arg = grid_topology
    /\ rank_distribution = grid_topology
    /\ local_grid_size \in LocalGridSizes
    /\ global_grid_size = [a \in Axes |-> local_grid_size[a] * grid_topology[a]]
    /\ periodic_flag \in BOOLEAN
    /\ cart_created = TRUE
    /\ ghost_size \in 1..MaxGhost
    /\ local_field = [r \in Ranks |-> [f \in {1} |-> TaggedField(r, f)]]
    /\ comm_requests = [r \in Ranks |-> <<>>]
    /\ completed = {}
    /\ eager_protocol \in BOOLEAN
    /\ eager_buffer = local_field
    /\ pc = [r \in Ranks |-> "init"]
    /\ master_rank = 0
    /\ slave_ranks = <<>>
    /\ loop_pos = 0
    /\ global_field = <<>>
    /\ ref_global_field = <<>>
    /\ in_flight = <<>>
    /\ gen_pc = "generate"
    /\ kernel_support = 0
    /\ returned_kernel_support = <<>>
    /\ invocation = 0
    /\ call_log = <<>>
    /\ program = <<>>
    /\ velocity_collection = <<>>
    /\ omega_collection = <<>>
    /\ velocity_field = <<>>
    /\ velocity_pc = "none"
    /\ system = <<>>
    /\ system_before = <<>>
    /\ apply_pc = "none"
    /\ apply_log = <<>>
    /\ flow_history = <<>>
    /\ forcing_grid_cls = "none"
    /\ grid_dim_arg = 0
    /\ body = <<>>
    /\ interactor_pc = <<>>
    /\ forcing_grid = <<>>
    /\ grid_object = <<>>
    /\ body_flow_forces = <<>>
    /\ body_flow_torques = <<>>
    /\ lag_grid_forcing_field = <<>>
    /\ transfers = 0
    /\ map_pc = "none"
    /\ marker_positions = <<>>
    /\ rank_positions = <<>>
    /\ classified = {}
    /\ local_indices = <<>>
    /\ scatter_map = <<>>
    /\ retired = <<>>
    /\ comm_class = "none"
    /\ ghost_size_arg = 0
    /\ on_master = FALSE
    /\ life_pc = "none"
    /\ committed_types = <<>>
    /\ freed_types = <<>>

NextGhost ==
    \/ \E r \in Ranks :
            exchange_scalar_field_init(r, 1) /\ UNCHANGED <<topoVars, fieldVars, curlVars, lifeVars, queueVars, markerVars, forcingVars, applyVars, velocityVars, matchVars>>
    \/ \E dst \in Ranks : \E j \in 1..Len(comm_requests[dst]) :
            Transfer(dst, j) /\ UNCHANGED <<topoVars, fieldVars, curlVars, lifeVars, queueVars, markerVars, forcingVars, applyVars, velocityVars, matchVars>>
    \/ \E r \in Ranks : exchange_finalise(r) /\ UNCHANGED <<topoVars, fieldVars, curlVars, lifeVars, queueVars, markerVars, forcingVars, applyVars, velocityVars, matchVars>>

SpecGhost == InitGhost /\ [][NextGhost]_vars

\* =========================================================================
\*  Properties of the halo exchange
\* =========================================================================

AllDone == \A r \in Ranks : pc[r] = "done"

\* -1 / 0 / 1: cell c lies in the lower halo, the inner region, the upper
\* halo along axis a
Side(c, a) ==
    IF c[a] < ghost_size THEN -1
    ELSE IF c[a] >= ghost_size + local_grid_size[a] THEN 1
    ELSE 0

HaloAxes(c) == {a \in Axes : Side(c, a) # 0}

IsInner(c) == HaloAxes(c) = {}

\* the rank whose inner region a halo cell of rank r images
Owner(r, c) ==
    LET r1 == ShiftedRank(r, 1, Side(c, 1))
        r2 == IF r1 = PROC_NULL THEN PROC_NULL ELSE ShiftedRank(r1, 2, Side(c, 2))
    IN  IF r2 = PROC_NULL THEN PROC_NULL ELSE ShiftedRank(r2, 3, Side(c, 3))

\* the cell of the owner's field that a halo cell images
Mirror(c) == [a \in Axes |-> c[a] - Side(c, a) * local_grid_size[a]]

\* the halo cells with exactly n halo coordinates: 1 faces, 2 edges, 3 corners
HaloCells(n) == {c \in CellsOf(field_size) : Cardinality(HaloAxes(c)) = n}

MirrorsOwner(r, f, c) ==
    Owner(r, c) # PROC_NULL =>
        local_field[r][f][c] = local_field[Owner(r, c)][f][Mirror(c)]

\* the ghost width fits in the local block along every axis in axes
GhostFits(axes) == \A a \in axes : ghost_size <= local_grid_size[a]

\* C1 as stated: after every rank has finalised, each face halo cell of each
\* rank equals the cell of the neighbour's opposing inner-boundary slab, for
\* every ghost width and partition.
C1_FacesMirrorNeighbour_AnyGhost ==
    AllDone => \A r \in Ranks : \A c \in HaloCells(1) : MirrorsOwner(r, 1, c)

\* C1 (amended): the same, for the faces along the axes on which the ghost
\* width does not exceed the local block size.
C1_FacesMirrorNeighbour ==
    AllDone => \A r \in Ranks : \A c \in HaloCells(1) :
        GhostFits(HaloAxes(c)) =>
            /\ MirrorsOwner(r, 1, c)
            /\ IsInner(Mirror(c))

C1_Witness ==
    /\ AllDone
    /\ periodic_flag
    /\ Prod(grid_topology) = 2
    /\ GhostFits(Axes)
    /\ ghost_size = 2

\* C4: on a periodic domain, after every rank has finalised, each edge and
\* corner halo cell equals the cell of the diagonal neighbour's inner block
\* (stated for ghost widths that fit in the local block).
C4_EdgesAndCornersMirrorDiagonal ==
    (AllDone /\ periodic_flag /\ GhostFits(Axes)) =>
        \A r \in Ranks : \A c \in HaloCells(2) \cup HaloCells(3) :
            MirrorsOwner(r, 1, c)

\* ---- ranks at the boundary of a domain that is not periodic ----

\* the halo cells of rank that lie past the end of the global domain along
\* some axis
OutwardHalo(rank) ==
    {c \in CellsOf(field_size) :
        \E a \in Axes :
            \/ Side(c, a) = -1 /\ Get_coords(rank)[a] = 0
            \/ Side(c, a) = 1 /\ Get_coords(rank)[a] = grid_topology[a] - 1}

\* the face halo cells of rank that image a neighbour's inner cells
InwardHalo(rank) ==
    {c \in HaloCells(1) : c \notin OutwardHalo(rank) /\ GhostFits(HaloAxes(c))}

\* the requests of rank to or from a rank have completed
RealRequestsComplete(rank) ==
    \A i \in 1..Len(comm_requests[rank]) :
        comm_requests[rank][i].peer # PROC_NULL => <<rank, i>> \in completed

\* the cells of rank's halo slabs that face a neighbour: the receive
\* descriptors of an axis span the whole array, halos included, on the other
\* two axes
InwardSlabs(rank) ==
    {c \in CellsOf(field_size) :
        \E a \in Axes : Side(c, a) # 0 /\ ShiftedRank(rank, a, Side(c, a)) # PROC_NULL}

\* the neighbours of a rank on a domain that is not periodic: MPI.PROC_NULL
\* past the lower and the upper end of an axis, a rank elsewhere
BoundaryNeighbours(r) ==
    \A a \in Axes :
        /\ previous_grid_along(r, a) = PROC_NULL <=> Get_coords(r)[a] = 0
        /\ next_grid_along(r, a) = PROC_NULL <=> Get_coords(r)[a] = grid_topology[a] - 1

\* exchange_finalise of rank can return as soon as its requests to ranks
\* have completed
CompletesAtBoundary(r) ==
    (pc[r] = "posted" /\ RealRequestsComplete(r)) =>
        \A i \in 1..Len(comm_requests[r]) : RequestComplete(r, i)

\* once all ranks have finalised, the halo faces of rank towards a neighbour
\* hold the neighbour's inner cells
InwardHaloFilled(r) ==
    AllDone =>
        \A c \in InwardHalo(r) :
            /\ Owner(r, c) \in Ranks \ {r}
            /\ local_field[r][1][c] = Tag(Owner(r, c), 1, Mirror(c))

\* C35 as stated: on a domain that is not periodic, a rank at the lower
\* (upper) end of an axis has no previous (next) neighbour on it, the whole
\* halo slab past the end of the domain keeps the values it had before the
\* exchange, the exchange completes and the halo towards a neighbour is
\* filled.
C35_BoundaryRankExchange_WholeSlab ==
    ~periodic_flag =>
        \A r \in Ranks :
            /\ BoundaryNeighbours(r)
            /\ \A c \in OutwardHalo(r) : local_field[r][1][c] = Tag(r, 1, c)
            /\ CompletesAtBoundary(r)
            /\ InwardHaloFilled(r)

\* C35 (amended): the same, with the cells of the outward slab that lie in
\* no slab facing a neighbour on another axis keeping their values.
C35_BoundaryRankExchange ==
    ~periodic_flag =>
        \A r \in Ranks :
            /\ BoundaryNeighbours(r)
            /\ \A c \in OutwardHalo(r) \ InwardSlabs(r) :
                  local_field[r][1][c] = Tag(r, 1, c)
            /\ CompletesAtBoundary(r)
            /\ InwardHaloFilled(r)

\* two ranks along x on a domain that is not periodic have finalised: rank 0
\* has no previous neighbour and rank 1 as its next, its upper x face holds
\* rank 1's cells and its lower x halo its own
C35_Witness ==
    /\ AllDone
    /\ ~periodic_flag
    /\ grid_topology = <<1, 1, 2>>
    /\ ghost_size = 1
    /\ previous_grid_along(0, x_axis) = PROC_NULL
    /\ next_grid_along(0, x_axis) = 1
    /\ InwardHalo(0) # {}
    /\ \A c \in InwardHalo(0) : local_field[0][1][c][1] = 1
    /\ \E c \in OutwardHalo(0) : Side(c, x_axis) = -1 /\ local_field[0][1][c][1] = 0

\* ---- the face descriptors as index ranges ----

\* the indices a descriptor addresses along axis a
AxisRange(t, a) == t.starts[a]..(t.starts[a] + t.subsizes[a] - 1)

\* the inner range and the two halo ranges of the local array along axis a
InnerRange(a) == ghost_size..(ghost_size + local_grid_size[a] - 1)

LowerHaloRange(a) == 0..(ghost_size - 1)

UpperHaloRange(a) ==
    (local_grid_size[a] + ghost_size)..(local_grid_size[a] + 2 * ghost_size - 1)

\* the six face directions: what is sent towards a neighbour, the descriptor
\* the neighbour receives it with, and the halo that descriptor fills
FaceDirections ==
    { [axis |-> x_axis, send |-> send_next_along_x_type,
       recv |-> recv_previous_along_x_type, halo |-> LowerHaloRange(x_axis)],
      [axis |-> x_axis, send |-> send_previous_along_x_type,
       recv |-> recv_next_along_x_type, halo |-> UpperHaloRange(x_axis)],
      [axis |-> y_axis, send |-> send_next_along_y_type,
       recv |-> recv_previous_along_y_type, halo |-> LowerHaloRange(y_axis)],
      [axis |-> y_axis, send |-> send_previous_along_y_type,
       recv |-> recv_next_along_y_type, halo |-> UpperHaloRange(y_axis)],
      [axis |-> z_axis, send |-> send_next_along_z_type,
       recv |-> recv_previous_along_z_type, halo |-> LowerHaloRange(z_axis)],
      [axis |-> z_axis, send |-> send_previous_along_z_type,
       recv |-> recv_next_along_z_type, halo |-> UpperHaloRange(z_axis)] }

\* a descriptor addresses only cells of the local array
WithinLocalArray(t) == SubarrayCells(t) \subseteq CellsOf(field_size)

\* what holds of a face direction whatever the sizes: the receive descriptor
\* addresses exactly its halo range, the pair has equal subsizes and both
\* descriptors stay inside the local array
FaceDescriptorsMatch(d) ==
    /\ AxisRange(d.recv, d.axis) = d.halo
    /\ d.send.subsizes = d.recv.subsizes
    /\ WithinLocalArray(d.send)
    /\ WithinLocalArray(d.recv)

SendsFromInner(d) == AxisRange(d.send, d.axis) \subseteq InnerRange(d.axis)

\* C25 as stated: for every face direction, local size and ghost width the
\* send descriptor addresses only inner cells along the exchange axis, the
\* receive descriptor addresses exactly the halo range, the matched
\* descriptors have identical subsizes and both stay within the local array.
C25_FaceDescriptors_AnyLocalSize ==
    \A d \in FaceDirections : SendsFromInner(d) /\ FaceDescriptorsMatch(d)

\* C25 (amended): the receive descriptor addresses exactly the halo range,
\* the matched descriptors have identical subsizes and both stay within the
\* local array for every size; the send descriptor addresses only inner cells
\* exactly when the ghost width does not exceed the local size along the axis.
C25_FaceDescriptors ==
    \A d \in FaceDirections :
        /\ FaceDescriptorsMatch(d)
        /\ SendsFromInner(d) <=> ghost_size <= local_grid_size[d.axis]

\* a rank has posted its face exchange with a ghost width of 2 that fits on
\* every axis
C25_Witness ==
    /\ ghost_size = 2
    /\ GhostFits(Axes)
    /\ \E r \in Ranks :
          /\ Len(comm_requests[r]) = 12
          /\ \A d \in FaceDirections :
                /\ \E n \in 1..12 : comm_requests[r][n].type = d.send
                /\ \E n \in 1..12 : comm_requests[r][n].type = d.recv
                /\ SendsFromInner(d)

\* =========================================================================
\*  MPIFieldCommunicator3D
\* =========================================================================

\* np.ravel_multi_index(multi_index, dims)
ravel_multi_index(c, dims) == (c[1] * dims[2] + c[2]) * dims[3] + c[3]

\* the cell of an array of shape dims at flat offset i
unravel_index(i, dims) ==
    <<i \div (dims[2] * dims[3]), (i \div dims[3]) % dims[2], i % dims[3]>>

\* a worker datatype that starts at the corner of the halo
sub_array_type_from_halo(rank) ==
    IF rank = master_rank
    THEN Create_subarray(global_grid_size, local_grid_size, <<0, 0, 0>>)
    ELSE Create_subarray(field_size, local_grid_size, <<0, 0, 0>>)

\* self.sub_array_type, lines 326-341
sub_array_type(rank) ==
    IF rank = master_rank
    THEN Create_subarray(global_grid_size, local_grid_size, <<0, 0, 0>>)
    ELSE Create_subarray(field_size, local_grid_size,
                         <<ghost_size, ghost_size, ghost_size>>)

\* local_field[self.inner_idx]: the cell of the local field at offset d of
\* the inner view (lines 315-320: Ellipsis for ghost_size 0, else
\* slice(ghost_size, -ghost_size) on every axis)
inner_idx(d) ==
    IF ghost_size = 0 THEN d
    ELSE [a \in Axes |-> ghost_size + d[a]]

\* global_field[local_chunk_idx]: the slices of lines 350-363 and 390-403
InLocalChunk(coords, g) ==
    \A a \in Axes :
        /\ coords[a] * local_grid_size[a] <= g[a]
        /\ g[a] < (coords[a] + 1) * local_grid_size[a]

ChunkOffset(coords, g) == [a \in Axes |-> g[a] - coords[a] * local_grid_size[a]]

\* a gather that receives every block at the origin of the global field
gather_idx_origin(rank_idx) == 0

\* idx of lines 368-371 (gather)
gather_idx(rank_idx) ==
    ravel_multi_index(
        [a \in Axes |-> Get_coords(rank_idx)[a] * local_grid_size[a]],
        global_grid_size)

\* a scatter offset taken from the coordinates alone
scatter_idx_unscaled(rank_idx) ==
    ravel_multi_index(Get_coords(rank_idx), global_grid_size)

\* idx of lines 408-411 (scatter)
scatter_idx(rank_idx) ==
    ravel_multi_index(
        [a \in Axes |-> Get_coords(rank_idx)[a] * local_grid_size[a]],
        global_grid_size)

\* the flat offset, in the buffer global_field.ravel()[idx:], of element k of
\* the master's datatype
MasterElemOffset(idx, k) ==
    idx + ravel_multi_index(ElemCell(sub_array_type(master_rank), k),
                            sub_array_type(master_rank).sizes)

OutOfBounds == <<-4, 0, 0, 0, 0>>

\* what Send((global_field.ravel()[idx:], 1, self.sub_array_type)) carries
PackGlobal(idx) ==
    [k \in 1..SubarrayCount(sub_array_type(master_rank)) |->
        IF MasterElemOffset(idx, k - 1) \in DOMAIN global_field
        THEN global_field[MasterElemOffset(idx, k - 1)]
        ELSE OutOfBounds]

\* what Send((local_field, 1, self.sub_array_type)) carries
PackLocal(rank) ==
    [k \in 1..SubarrayCount(sub_array_type(rank)) |->
        local_field[rank][1][ElemCell(sub_array_type(rank), k - 1)]]

\* the local field after Recv((local_field, 1, self.sub_array_type))
UnpackLocal(rank, data) ==
    [c \in DOMAIN local_field[rank][1] |->
        IF InSubarray(sub_array_type(rank), c)
           /\ ElemIndex(sub_array_type(rank), c) < Len(data)
        THEN data[ElemIndex(sub_array_type(rank), c) + 1]
        ELSE local_field[rank][1][c]]

\* the global field after Recv((global_field.ravel()[idx:], 1, sub_array_type))
UnpackGlobal(idx, data) ==
    [i \in DOMAIN global_field |->
        IF \E k \in 1..Len(data) : MasterElemOffset(idx, k - 1) = i
        THEN data[CHOOSE k \in 1..Len(data) : MasterElemOffset(idx, k - 1) = i]
        ELSE global_field[i]]

\* grid.Send: the message is buffered by MPI (eager build) or handed over
\* once the receiver waits for it (rendezvous build)
SendEnabled(dst_waits) == eager_protocol \/ dst_waits

\* index of the first message in flight from src to dst, 0 if there is none
FirstFrom(src, dst) ==
    LET hits == {n \in 1..Len(in_flight) :
                    in_flight[n].src = src /\ in_flight[n].dst = dst}
    IN  IF hits = {} THEN 0 ELSE CHOOSE n \in hits : \A o \in hits : n <= o

Without(seq, n) == [k \in 1..(Len(seq) - 1) |-> IF k < n THEN seq[k] ELSE seq[k + 1]]

ghostFrame == <<ghost_size, comm_requests, completed, eager_protocol, eager_buffer>>

\* scatter_global_field on the master, lines 388-404: its own block
ScatterCopy ==
    /\ pc[master_rank] = "scatter_copy"
    /\ local_field' = [local_field EXCEPT ![master_rank][1] =
          [c \in DOMAIN @ |->
              IF \E d \in CellsOf(local_grid_size) : inner_idx(d) = c
              THEN LET d == CHOOSE e \in CellsOf(local_grid_size) : inner_idx(e) = c
                       coords == Get_coords(master_rank)
                   IN  global_field[ravel_multi_index(
                           [a \in Axes |-> coords[a] * local_grid_size[a] + d[a]],
                           global_grid_size)]
              ELSE @[c]]]
    /\ pc' = [pc EXCEPT ![master_rank] =
                 IF slave_ranks = <<>> THEN "scattered" ELSE "scatter_send"]
    /\ loop_pos' = 1
    /\ UNCHANGED <<ghostFrame, master_rank, slave_ranks, global_field,
                   ref_global_field, in_flight>>

\* scatter_global_field on the master, lines 406-415: one turn of the loop
ScatterSend ==
    /\ pc[master_rank] = "scatter_send"
    /\ LET rank_idx == slave_ranks[loop_pos]
       IN  /\ SendEnabled(pc[rank_idx] = "scatter_recv")
           /\ in_flight' = Append(in_flight,
                 [src |-> master_rank, dst |-> rank_idx,
                  data |-> PackGlobal(scatter_idx(rank_idx))])
    /\ loop_pos' = loop_pos + 1
    /\ pc' = [pc EXCEPT ![master_rank] =
                 IF loop_pos = Len(slave_ranks) THEN "scattered" ELSE @]
    /\ UNCHANGED <<ghostFrame, local_field, master_rank, slave_ranks,
                   global_field, ref_global_field>>

\* scatter_global_field on another rank, lines 416-420
ScatterRecv(rank) ==
    /\ rank # master_rank
    /\ pc[rank] = "scatter_recv"
    /\ FirstFrom(master_rank, rank) # 0
    /\ local_field' = [local_field EXCEPT ![rank][1] =
          UnpackLocal(rank, in_flight[FirstFrom(master_rank, rank)].data)]
    /\ in_flight' = Without(in_flight, FirstFrom(master_rank, rank))
    /\ pc' = [pc EXCEPT ![rank] = "scattered"]
    /\ UNCHANGED <<ghostFrame, master_rank, slave_ranks, loop_pos,
                   global_field, ref_global_field>>

GlobalValue(i) == <<-1, 0, i, 0, 0>>

Scrambled(i) == <<-2, 0, i, 0, 0>>

\* the master overwrites its global array after the scatter
\* (test_mpi_field_gather_scatter, "randomise global field after scatter")
Randomise ==
    /\ pc[master_rank] = "scattered"
    /\ \E reversed \in BOOLEAN :
         global_field' = [i \in DOMAIN global_field |->
            IF reversed THEN global_field[Prod(global_grid_size) - 1 - i]
            ELSE Scrambled(i)]
    /\ pc' = [pc EXCEPT ![master_rank] = "gather_copy"]
    /\ UNCHANGED <<ghostFrame, local_field, master_rank, slave_ranks, loop_pos,
                   ref_global_field, in_flight>>

\* gather_local_field on the master, lines 347-364: its own block
GatherCopy ==
    /\ pc[master_rank] = "gather_copy"
    /\ global_field' = [i \in DOMAIN global_field |->
          LET g == unravel_index(i, global_grid_size)
              coords == Get_coords(master_rank)
          IN  IF InLocalChunk(coords, g)
              THEN local_field[master_rank][1][inner_idx(ChunkOffset(coords, g))]
              ELSE global_field[i]]
    /\ pc' = [pc EXCEPT ![master_rank] =
                 IF slave_ranks = <<>> THEN "done" ELSE "gather_recv"]
    /\ loop_pos' = 1
    /\ UNCHANGED <<ghostFrame, local_field, master_rank, slave_ranks,
                   ref_global_field, in_flight>>

\* gather_local_field on another rank, lines 376-380
GatherSend(rank) ==
    /\ rank # master_rank
    /\ pc[rank] = "scattered"
    /\ SendEnabled(pc[master_rank] = "gather_recv" /\ slave_ranks[loop_pos] = rank)
    /\ in_flight' = Append(in_flight,
          [src |-> rank, dst |-> master_rank, data |-> PackLocal(rank)])
    /\ pc' = [pc EXCEPT ![rank] = "done"]
    /\ UNCHANGED <<ghostFrame, local_field, master_rank, slave_ranks, loop_pos,
                   global_field, ref_global_field>>

\* gather_local_field on the master, lines 365-375: one turn of the loop
GatherRecv ==
    /\ pc[master_rank] = "gather_recv"
    /\ LET rank_idx == slave_ranks[loop_pos]
           n == FirstFrom(rank_idx, master_rank)
       IN  /\ n # 0
           /\ global_field' = UnpackGlobal(gather_idx(rank_idx), in_flight[n].data)
           /\ in_flight' = Without(in_flight, n)
    /\ loop_pos' = loop_pos + 1
    /\ pc' = [pc EXCEPT ![master_rank] =
                 IF loop_pos = Len(slave_ranks) THEN "done" ELSE @]
    /\ UNCHANGED <<ghostFrame, local_field, master_rank, slave_ranks,
                   ref_global_field>>

FieldTopologies == GhostTopologies \cup {<<2, 2, 1>>}

MaxFieldGhost == 1

\* n-th smallest element of the set S of ranks
NthRank(S, n) == CHOOSE r \in S : Cardinality({q \in S : q < r}) = n - 1

\* loops that visit every rank, the master too
Orders_with_master(S) ==
    {[n \in 1..Cardinality(Ranks) |-> NthRank(Ranks, n)],
     [n \in 1..Cardinality(Ranks) |-> NthRank(Ranks, Cardinality(Ranks) + 1 - n)]}

\* the orders in which the loops visit set(np.arange(size)) - {master_rank}:
\* ascending or descending
Orders(S) == {[n \in 1..Cardinality(S) |-> NthRank(S, n)],
              [n \in 1..Cardinality(S) |-> NthRank(S, Cardinality(S) + 1 - n)]}

\* the state after MPIConstruct3D and MPIFieldCommunicator3D were constructed
\* on every rank, the master holds a global field and every rank a local one
InitField ==
    /\ ctor_pc = "constructed"
    /\ grid_topology \in FieldTopologies
    /\ world_size = Prod(grid_topology)
    /\ rank_distribution_arg = grid_topology
    /\ rank_distribution = grid_topology
    /\ local_grid_size \in LocalGridSizes
    /\ global_grid_size = [a \in Axes |-> local_grid_size[a] * grid_topology[a]]
    /\ periodic_flag = FALSE
    /\ cart_created = TRUE
    /\ ghost_size \in 0..MaxFieldGhost
    /\ local_field = [r \in Ranks |-> [f \in {1} |-> TaggedField(r, f)]]
    /\ comm_requests = [r \in Ranks |-> <<>>]
    /\ completed = {}
    /\ eager_protocol \in BOOLEAN
    /\ eager_buffer = <<>>
    /\ master_rank \in Ranks
    /\ slave_ranks \in Orders(Ranks \ {master_rank})
    /\ pc = [r \in Ranks |-> IF r = master_rank THEN "scatter_copy" ELSE "scatter_recv"]
    /\ loop_pos = 1
    /\ global_field = [i \in 0..(Prod(global_grid_size) - 1) |-> GlobalValue(i)]
    /\ ref_global_field = global_field
    /\ in_flight = <<>>
    /\ gen_pc = "generate"
    /\ kernel_support = 0
    /\ returned_kernel_support = <<>>
    /\ invocation = 0
    /\ call_log = <<>>
    /\ program = <<>>
    /\ velocity_collection = <<>>
    /\ omega_collection = <<>>
    /\ velocity_field = <<>>
    /\ velocity_pc = "none"
    /\ system = <<>>
    /\ system_before = <<>>
    /\ apply_pc = "none"
    /\ apply_log = <<>>
    /\ flow_history = <<>>
    /\ forcing_grid_cls = "none"
    /\ grid_dim_arg = 0
    /\ body = <<>>
    /\ interactor_pc = <<>>
    /\ forcing_grid = <<>>
    /\ grid_object = <<>>
    /\ body_flow_forces = <<>>
    /\ body_flow_torques = <<>>
    /\ lag_grid_forcing_field = <<>>
    /\ transfers = 0
    /\ map_pc = "none"
    /\ marker_positions = <<>>
    /\ rank_positions = <<>>
    /\ classified = {}
    /\ local_indices = <<>>
    /\ scatter_map = <<>>
    /\ retired = <<>>
    /\ comm_class = "none"
    /\ ghost_size_arg = 0
    /\ on_master = FALSE
    /\ life_pc = "none"
    /\ committed_types = <<>>
    /\ freed_types = <<>>

NextField ==
    \/ ScatterCopy /\ UNCHANGED <<topoVars, curlVars, lifeVars, queueVars, markerVars, forcingVars, applyVars, velocityVars, matchVars>>
    \/ ScatterSend /\ UNCHANGED <<topoVars, curlVars, lifeVars, queueVars, markerVars, forcingVars, applyVars, velocityVars, matchVars>>
    \/ \E r \in Ranks : ScatterRecv(r) /\ UNCHANGED <<topoVars, curlVars, lifeVars, queueVars, markerVars, forcingVars, applyVars, velocityVars, matchVars>>
    \/ Randomise /\ UNCHANGED <<topoVars, curlVars, lifeVars, queueVars, markerVars, forcingVars, applyVars, velocityVars, matchVars>>
    \/ GatherCopy /\ UNCHANGED <<topoVars, curlVars, lifeVars, queueVars, markerVars, forcingVars, applyVars, velocityVars, matchVars>>
    \/ \E r \in Ranks : GatherSend(r) /\ UNCHANGED <<topoVars, curlVars, lifeVars, queueVars, markerVars, forcingVars, applyVars, velocityVars, matchVars>>
    \/ GatherRecv /\ UNCHANGED <<topoVars, curlVars, lifeVars, queueVars, markerVars, forcingVars, applyVars, velocityVars, matchVars>>

SpecField == InitField /\ [][NextField]_vars

\* ---- properties of scatter and gather ----

\* C2: when the master's gather returns, its global field again equals the
\* field it scattered, in every cell, whatever it was overwritten with.
C2_ScatterGatherRoundTrip ==
    pc[master_rank] = "done" => global_field = ref_global_field

C2_Witness ==
    /\ pc[master_rank] = "done"
    /\ Prod(grid_topology) = 4
    /\ master_rank = 1
    /\ ghost_size = 1
    /\ global_field = ref_global_field

\* v is a value of the field the master scattered
IsGlobalValue(v) == v[1] = -1

\* the global cell whose value scatter puts in inner cell c of rank
SourceCell(rank, c) ==
    ravel_multi_index(
        [a \in Axes |-> Get_coords(rank)[a] * local_grid_size[a] + c[a] - ghost_size],
        global_grid_size)

\* C8: scatter leaves every halo cell of every rank as it was and fills the
\* inner region with the rank's block; gather sends and copies inner cells
\* only, so no halo value reaches a message or the global field.
C8_InnerRegionOnly ==
    /\ \A r \in Ranks : \A c \in DOMAIN local_field[r][1] :
          IF IsInner(c)
          THEN pc[r] \notin {"scatter_copy", "scatter_recv"} =>
                  local_field[r][1][c] = ref_global_field[SourceCell(r, c)]
          ELSE local_field[r][1][c] = Tag(r, 1, c)
    /\ \A i \in DOMAIN global_field :
          IsGlobalValue(global_field[i]) \/ global_field[i] = Scrambled(i)
    /\ \A n \in 1..Len(in_flight) : \A k \in 1..Len(in_flight[n].data) :
          IsGlobalValue(in_flight[n].data[k])

C8_Witness ==
    /\ \A r \in Ranks : pc[r] = "done"
    /\ Prod(grid_topology) = 2
    /\ master_rank = 0
    /\ ghost_size = 1
    /\ local_grid_size = <<1, 2, 2>>

\* ---- the sends and receives of scatter and gather ----

\* Every rank's process keeps running and MPI delivers a message whose
\* receiver waits for it: a step that stays possible is taken.
\* Which sends and receives are made does not depend on the size of the
\* blocks: the ranks hold one cell each.
InitFieldLive == InitField /\ local_grid_size = <<1, 1, 1>>

SpecFieldLive == InitFieldLive /\ [][NextField]_vars /\ WF_vars(NextField)

\* the ranks the master's scatter loop has sent to
ScatterSentTo ==
    IF pc[master_rank] = "scatter_copy" THEN {}
    ELSE IF pc[master_rank] = "scatter_send"
    THEN {slave_ranks[k] : k \in 1..(loop_pos - 1)}
    ELSE {slave_ranks[k] : k \in 1..Len(slave_ranks)}

\* the ranks the master's gather loop has received from
GatherReceivedFrom ==
    IF pc[master_rank] = "done" THEN {slave_ranks[k] : k \in 1..Len(slave_ranks)}
    ELSE IF pc[master_rank] = "gather_recv"
    THEN {slave_ranks[k] : k \in 1..(loop_pos - 1)}
    ELSE {}

\* the messages on their way from src to dst
InFlight(src, dst) ==
    Cardinality({n \in 1..Len(in_flight) :
                    in_flight[n].src = src /\ in_flight[n].dst = dst})

One(b) == IF b THEN 1 ELSE 0

\* every rank has returned from scatter and from gather
GatherReturned == \A r \in Ranks : pc[r] = "done"

\* C33: whichever rank is the master, the master's loops visit every other
\* rank once and never the master; each message of the scatter goes from the
\* master to another rank, which receives it once, and each message of the
\* gather from another rank, which sends once, to the master, which receives
\* it once; no message is sent twice or left over; and every rank returns
\* from scatter and gather, also when a send blocks until its receive is
\* posted.
C33_ScatterGatherCompletes ==
    /\ [](/\ \A r \in Ranks :
               Cardinality({k \in 1..Len(slave_ranks) : slave_ranks[k] = r})
                   = One(r # master_rank)
          /\ \A n \in 1..Len(in_flight) :
               /\ in_flight[n].src # in_flight[n].dst
               /\ master_rank \in {in_flight[n].src, in_flight[n].dst}
          /\ \A r \in Ranks \ {master_rank} :
               /\ InFlight(master_rank, r) + One(pc[r] # "scatter_recv")
                      = One(r \in ScatterSentTo)
               /\ InFlight(r, master_rank) + One(r \in GatherReceivedFrom)
                      = One(pc[r] = "done")
          /\ GatherReturned => in_flight = <<>>)
    /\ <>GatherReturned

\* four ranks, the master not rank 0 and sends that block until matched:
\* every rank has returned
C33_Witness ==
    /\ GatherReturned
    /\ grid_topology = <<2, 2, 1>>
    /\ master_rank = 2
    /\ ~eager_protocol
    /\ slave_ranks = <<3, 1, 0>>
    /\ in_flight = <<>>

\* ---- the blocks of the global field ----

\* the global cells [c*L, (c+1)*L) on every axis, c the coordinates of rank
GlobalBlock(rank) ==
    {g \in CellsOf(global_grid_size) :
        \A a \in Axes :
            g[a] \in (Get_coords(rank)[a] * local_grid_size[a])..
                     ((Get_coords(rank)[a] + 1) * local_grid_size[a] - 1)}

\* the flat offsets of global_field the master's datatype addresses from idx
AddressedOffsets(idx) ==
    {MasterElemOffset(idx, k - 1) :
        k \in 1..SubarrayCount(sub_array_type(master_rank))}

\* the global cells the master copies itself (global_field[local_chunk_idx])
MasterChunk ==
    {g \in CellsOf(global_grid_size) : InLocalChunk(Get_coords(master_rank), g)}

\* the global cells gather and scatter address for rank
AddressedBlock(rank, idx) ==
    IF rank = master_rank THEN MasterChunk
    ELSE {unravel_index(o, global_grid_size) : o \in AddressedOffsets(idx)}

\* C26: in gather and in scatter the block of each rank is the global cells
\* [c*L, (c+1)*L) on every axis; the start offset ravel(c*L) plus every offset
\* of the L-sized descriptor stays inside the global array; the blocks of
\* distinct ranks are disjoint and together cover the global field.  (The
\* blocks depend on the topology, the local size and the master only, which
\* no step changes; they are looked at when the master enters scatter, when
\* it enters gather and when it has returned from gather.)
C26_BlocksTileGlobalField ==
    pc[master_rank] \in {"scatter_copy", "gather_copy", "done"} =>
    \A idx_of \in {[r \in Ranks |-> gather_idx(r)],
                   [r \in Ranks |-> scatter_idx(r)]} :
        /\ \A r \in Ranks :
              /\ idx_of[r] = ravel_multi_index(
                    [a \in Axes |-> Get_coords(r)[a] * local_grid_size[a]],
                    global_grid_size)
              /\ AddressedOffsets(idx_of[r]) \subseteq 0..(Prod(global_grid_size) - 1)
              /\ AddressedBlock(r, idx_of[r]) = GlobalBlock(r)
        /\ \A r, q \in Ranks :
              r # q => AddressedBlock(r, idx_of[r]) \cap AddressedBlock(q, idx_of[q]) = {}
        /\ UNION {AddressedBlock(r, idx_of[r]) : r \in Ranks} = CellsOf(global_grid_size)

\* four ranks have scattered and gathered blocks of more than one cell
C26_Witness ==
    /\ \A r \in Ranks : pc[r] = "done"
    /\ grid_topology = <<2, 2, 1>>
    /\ local_grid_size = <<1, 2, 2>>
    /\ master_rank = 1
    /\ global_field = ref_global_field

\* =========================================================================
\*  gen_outplane_field_curl_pyst_mpi_kernel_2d
\* =========================================================================
\* A 2D array of shape (ny, nx) is held as the one-layer array (1, ny, nx):
\* its cell (y, x) is <<0, y, x>>, and a 2D process grid is <<1, ty, tx>>.

\* the arrays of one call: curl[0], curl[1] and field
curl_0 == 1
curl_1 == 2
field == 3

\* field.shape on a rank
field_size_2d ==
    <<1, local_grid_size[2] + 2 * ghost_size, local_grid_size[3] + 2 * ghost_size>>

\* ---- the 2D ghost communicator: four face pairs ----

send_next_along_x_type_2d == Create_subarray(field_size_2d,
    <<1, field_size_2d[2], ghost_size>>,
    <<0, 0, field_size_2d[3] - 2 * ghost_size>>)

recv_next_along_x_type_2d == Create_subarray(field_size_2d,
    <<1, field_size_2d[2], ghost_size>>,
    <<0, 0, field_size_2d[3] - ghost_size>>)

send_previous_along_x_type_2d == Create_subarray(field_size_2d,
    <<1, field_size_2d[2], ghost_size>>,
    <<0, 0, ghost_size>>)

recv_previous_along_x_type_2d == Create_subarray(field_size_2d,
    <<1, field_size_2d[2], ghost_size>>,
    <<0, 0, 0>>)

send_next_along_y_type_2d == Create_subarray(field_size_2d,
    <<1, ghost_size, field_size_2d[3]>>,
    <<0, field_size_2d[2] - 2 * ghost_size, 0>>)

recv_next_along_y_type_2d == Create_subarray(field_size_2d,
    <<1, ghost_size, field_size_2d[3]>>,
    <<0, field_size_2d[2] - ghost_size, 0>>)

send_previous_along_y_type_2d == Create_subarray(field_size_2d,
    <<1, ghost_size, field_size_2d[3]>>,
    <<0, ghost_size, 0>>)

recv_previous_along_y_type_2d == Create_subarray(field_size_2d,
    <<1, ghost_size, field_size_2d[3]>>,
    <<0, 0, 0>>)

\* the eight requests of one exchange_init, in posting order
exchange_init_requests(rank, fld) ==
    << Isend(fld, send_previous_along_x_type_2d, previous_grid_along(rank, x_axis)),
       Irecv(fld, recv_next_along_x_type_2d, next_grid_along(rank, x_axis)),
       Isend(fld, send_next_along_x_type_2d, next_grid_along(rank, x_axis)),
       Irecv(fld, recv_previous_along_x_type_2d, previous_grid_along(rank, x_axis)),
       Isend(fld, send_previous_along_y_type_2d, previous_grid_along(rank, y_axis)),
       Irecv(fld, recv_next_along_y_type_2d, next_grid_along(rank, y_axis)),
       Isend(fld, send_next_along_y_type_2d, next_grid_along(rank, y_axis)),
       Irecv(fld, recv_previous_along_y_type_2d, previous_grid_along(rank, y_axis)) >>

\* ---- Python slices ----

\* where the bound i of a slice falls in an axis of length n
slice_bound(i, n) ==
    IF i < 0 THEN (IF i + n < 0 THEN 0 ELSE i + n)
    ELSE (IF i > n THEN n ELSE i)

\* a[start:stop] on an axis of length n selects lo .. hi - 1
py_slice(start, stop, n) ==
    [lo |-> slice_bound(start, n), hi |-> slice_bound(stop, n)]

\* a[:]
full_slice(n) == [lo |-> 0, hi |-> n]

\* ---- the single-rank kernel ----

\* the cells a pystencils kernel updates in the view rows x cols: all but the
\* view's outermost layer
kernel_writes(rows, cols) ==
    {<<0, y, x>> : y \in (rows.lo + 1)..(rows.hi - 2),
                   x \in (cols.lo + 1)..(cols.hi - 2)}

\* curl_x = d(field)/dy and curl_y = -d(field)/dx by central differences
\* (the prefactor is taken as 1)
curl_x_value(f, c) == f[<<0, c[2] + 1, c[3]>>] - f[<<0, c[2] - 1, c[3]>>]

curl_y_value(f, c) == f[<<0, c[2], c[3] - 1>>] - f[<<0, c[2], c[3] + 1>>]

\* outplane_field_curl_pyst_kernel_2d(curl=curl[:, rows, cols],
\*                                    field=field[rows, cols], prefactor)
outplane_field_curl_pyst_kernel_2d(arrays, rows, cols) ==
    [arrays EXCEPT
        ![curl_0] = [c \in DOMAIN @ |->
                        IF c \in kernel_writes(rows, cols)
                        THEN curl_x_value(arrays[field], c) ELSE @[c]],
        ![curl_1] = [c \in DOMAIN @ |->
                        IF c \in kernel_writes(rows, cols)
                        THEN curl_y_value(arrays[field], c) ELSE @[c]]]

\* ---- the generator, lines 8-22 ----

\* check_valid_ghost_size_and_kernel_support(ghost_size, kernel_support)
\* passes
check_valid_ghost_size_and_kernel_support(gs, ks) == gs >= ks

\* a generator that does not check
gen_outplane_field_curl_pyst_mpi_kernel_2d_unchecked ==
    /\ gen_pc = "generate"
    /\ kernel_support' = 1
    /\ gen_pc' = "generated"
    /\ UNCHANGED <<ghostVars, call_log, returned_kernel_support, invocation>>

gen_outplane_field_curl_pyst_mpi_kernel_2d ==
    /\ gen_pc = "generate"
    /\ kernel_support' = 1
    /\ gen_pc' = IF check_valid_ghost_size_and_kernel_support(ghost_size, 1)
                 THEN "generated" ELSE "ValueError"
    /\ UNCHANGED <<ghostVars, call_log, returned_kernel_support, invocation>>

\* ---- the generated kernel, lines 24-114 ----

\* the calls of lines 38-114, in the order of a reordered wrapper that
\* finalises the exchange after the boundary strips
wrapper_steps_finalise_last ==
    <<"exchange_init_curl_0", "exchange_init_curl_1", "exchange_init_field",
      "interior", "y_start", "y_end", "x_start", "x_end", "exchange_finalise">>

\* the calls of lines 38-114, in order
wrapper_steps ==
    <<"exchange_init_curl_0", "exchange_init_curl_1", "exchange_init_field",
      "interior", "exchange_finalise", "y_start", "y_end", "x_start", "x_end">>

\* the step that follows step in the wrapper; it returns after the last
StepAfter(step) ==
    LET n == CHOOSE k \in 1..Len(wrapper_steps) : wrapper_steps[k] = step
    IN  IF n = Len(wrapper_steps) THEN "returned" ELSE wrapper_steps[n + 1]

\* the array each exchange_init is given, lines 38-40
InitStep(fld) ==
    CASE fld = curl_0 -> "exchange_init_curl_0"
      [] fld = curl_1 -> "exchange_init_curl_1"
      [] fld = field -> "exchange_init_field"

\* views whose Y-start strip begins at the first inner row
ViewRows_y_start_shifted(step) ==
    CASE step = "interior" -> py_slice(ghost_size, -ghost_size, field_size_2d[2])
      [] step = "y_start" ->
            py_slice(ghost_size, ghost_size + 3 * kernel_support, field_size_2d[2])
      [] step = "y_end" ->
            py_slice(-(ghost_size + 2 * kernel_support),
                     field_size_2d[2] - (ghost_size - kernel_support),
                     field_size_2d[2])
      [] OTHER -> full_slice(field_size_2d[2])

\* row views whose X strips take the inner rows only, as the Y strips take
\* the inner columns only
ViewRows_x_strips_inner(step) ==
    CASE step = "y_start" ->
            py_slice(ghost_size - kernel_support, ghost_size + 2 * kernel_support,
                     field_size_2d[2])
      [] step = "y_end" ->
            py_slice(-(ghost_size + 2 * kernel_support),
                     field_size_2d[2] - (ghost_size - kernel_support),
                     field_size_2d[2])
      [] OTHER -> py_slice(ghost_size, -ghost_size, field_size_2d[2])

\* the rows and columns of the view each kernel call is given
ViewRows(step) ==
    CASE step = "interior" -> py_slice(ghost_size, -ghost_size, field_size_2d[2])
      [] step = "y_start" ->
            py_slice(ghost_size - kernel_support, ghost_size + 2 * kernel_support,
                     field_size_2d[2])
      [] step = "y_end" ->
            py_slice(-(ghost_size + 2 * kernel_support),
                     field_size_2d[2] - (ghost_size - kernel_support),
                     field_size_2d[2])
      [] OTHER -> full_slice(field_size_2d[2])

\* a column view whose x_start strip begins at the first inner column
ViewCols_x_start_shifted(step) ==
    CASE step \in {"interior", "y_start", "y_end"} ->
            py_slice(ghost_size, -ghost_size, field_size_2d[3])
      [] step = "x_start" ->
            py_slice(ghost_size, ghost_size + 3 * kernel_support, field_size_2d[3])
      [] OTHER ->
            py_slice(-(ghost_size + 2 * kernel_support),
                     field_size_2d[3] - (ghost_size - kernel_support),
                     field_size_2d[3])

ViewCols(step) ==
    CASE step \in {"interior", "y_start", "y_end"} ->
            py_slice(ghost_size, -ghost_size, field_size_2d[3])
      [] step = "x_start" ->
            py_slice(ghost_size - kernel_support, ghost_size + 2 * kernel_support,
                     field_size_2d[3])
      [] OTHER ->
            py_slice(-(ghost_size + 2 * kernel_support),
                     field_size_2d[3] - (ghost_size - kernel_support),
                     field_size_2d[3])

\* ghost_exchange_communicator.exchange_init(array, mpi_construct), lines 38-40;
\* the first of them is preceded by lines 32-34, where the kernel copies the
\* generator's kernel_support attribute onto itself
wrapper_exchange_init(rank, fld) ==
    /\ gen_pc = "generated"
    /\ pc[rank] = InitStep(fld)
    /\ comm_requests' = [comm_requests EXCEPT
                            ![rank] = @ \o exchange_init_requests(rank, fld)]
    /\ eager_buffer' = [eager_buffer EXCEPT ![rank][fld] = local_field[rank][fld]]
    /\ call_log' = [call_log EXCEPT ![rank] = Append(@, pc[rank])]
    /\ pc' = [pc EXCEPT ![rank] = StepAfter(@)]
    /\ returned_kernel_support' =
          IF fld = curl_0
          THEN [returned_kernel_support EXCEPT ![rank] = kernel_support]
          ELSE returned_kernel_support
    /\ UNCHANGED <<ghost_size, local_field, completed, eager_protocol,
                   gen_pc, kernel_support, invocation>>

\* one call of the single-rank kernel on the view of the step; the kernel
\* either updates curl or raises, and an exception leaves the wrapper at once
KernelCall(rank, step) ==
    /\ gen_pc = "generated"
    /\ pc[rank] = step
    /\ call_log' = [call_log EXCEPT ![rank] = Append(@, step)]
    /\ \E raises \in BOOLEAN :
         IF raises
         THEN /\ pc' = [pc EXCEPT ![rank] = "raised"]
              /\ UNCHANGED local_field
         ELSE /\ pc' = [pc EXCEPT ![rank] = StepAfter(step)]
              /\ local_field' = [local_field EXCEPT ![rank] =
                    outplane_field_curl_pyst_kernel_2d(@, ViewRows(step), ViewCols(step))]
    /\ UNCHANGED <<ghost_size, comm_requests, completed, eager_protocol,
                   eager_buffer, gen_pc, kernel_support, returned_kernel_support,
                   invocation>>

\* "crunch interior stencil", lines 43-47
interior_kernel_call(rank) == KernelCall(rank, "interior")

\* "crunch boundary numbers", lines 60-114
boundary_strip_kernel_call(rank, step) ==
    /\ step \in {"y_start", "y_end", "x_start", "x_end"}
    /\ KernelCall(rank, step)

\* a finalise that waits for the requests but keeps them in the queue
wrapper_exchange_finalise_keeps_queue(rank) ==
    /\ gen_pc = "generated"
    /\ pc[rank] = "exchange_finalise"
    /\ \A i \in 1..Len(comm_requests[rank]) : RequestComplete(rank, i)
    /\ call_log' = [call_log EXCEPT ![rank] = Append(@, "exchange_finalise")]
    /\ pc' = [pc EXCEPT ![rank] = StepAfter(@)]
    /\ UNCHANGED <<ghost_size, local_field, comm_requests, completed,
                   eager_protocol, eager_buffer, gen_pc, kernel_support,
                   returned_kernel_support, invocation>>

\* ghost_exchange_communicator.exchange_finalise(), line 49
wrapper_exchange_finalise(rank) ==
    /\ gen_pc = "generated"
    /\ pc[rank] = "exchange_finalise"
    /\ \A i \in 1..Len(comm_requests[rank]) : RequestComplete(rank, i)
    /\ comm_requests' = [comm_requests EXCEPT ![rank] = <<>>]
    /\ completed' = {q \in completed : q[1] # rank}
    /\ call_log' = [call_log EXCEPT ![rank] = Append(@, "exchange_finalise")]
    /\ pc' = [pc EXCEPT ![rank] = StepAfter(@)]
    /\ UNCHANGED <<ghost_size, local_field, eager_protocol, eager_buffer,
                   gen_pc, kernel_support, returned_kernel_support, invocation>>


\* ---- the ranks' arrays ----

MaxCurlLocal == 3

\* a rank makes at most MaxCalls calls in a run
MaxCalls == 2

\* the program calls the returned kernel once more, on the arrays as the
\* previous invocation left them; the ranks are taken to start an invocation
\* together
invoke_kernel_again ==
    /\ gen_pc = "generated"
    /\ \A r \in Ranks : pc[r] = "returned"
    /\ invocation < MaxCalls
    /\ invocation' = invocation + 1
    /\ pc' = [r \in Ranks |-> wrapper_steps[1]]
    /\ call_log' = [r \in Ranks |-> <<>>]
    /\ UNCHANGED <<ghost_size, local_field, comm_requests, completed,
                   eager_protocol, eager_buffer, gen_pc, kernel_support,
                   returned_kernel_support>>

\* one rank, or two ranks along either axis; a periodic domain on one rank
CurlTopologies == {<<1, 1, 1>>, <<1, 2, 1>>, <<1, 1, 2>>}

CurlPeriodicFlags(topology) == IF Prod(topology) = 1 THEN BOOLEAN ELSE {FALSE}

CurlLocalSizes == {<<1, ny, nx>> : ny \in 1..MaxCurlLocal, nx \in 1..MaxCurlLocal}

\* the global field of a run
FieldValue(i) == (i + 1) * (i + 1)

IsInner2d(c) ==
    /\ c[2] \in ghost_size..(field_size_2d[2] - ghost_size - 1)
    /\ c[3] \in ghost_size..(field_size_2d[3] - ghost_size - 1)

\* the global cell held in inner cell c of rank
GlobalCell2d(rank, c) ==
    <<0, Get_coords(rank)[2] * local_grid_size[2] + c[2] - ghost_size,
         Get_coords(rank)[3] * local_grid_size[3] + c[3] - ghost_size>>

\* np.zeros(field_size), then scatter_global_field(local_field, ref_field)
ScatteredField(rank) ==
    [c \in CellsOf(field_size_2d) |->
        IF IsInner2d(c)
        THEN global_field[ravel_multi_index(GlobalCell2d(rank, c), global_grid_size)]
        ELSE 0]

ZeroArray(sizes) == [c \in CellsOf(sizes) |-> 0]

\* the state after the constructors, with the field scattered and the curl
\* zeroed on every rank, before the kernel is generated
InitCurl ==
    /\ ctor_pc = "constructed"
    /\ grid_topology \in CurlTopologies
    /\ world_size = Prod(grid_topology)
    /\ rank_distribution_arg = grid_topology
    /\ rank_distribution = grid_topology
    /\ local_grid_size \in CurlLocalSizes
    /\ global_grid_size = [a \in Axes |-> local_grid_size[a] * grid_topology[a]]
    /\ periodic_flag \in CurlPeriodicFlags(grid_topology)
    /\ cart_created = TRUE
    /\ ghost_size \in 0..MaxGhost
    /\ global_field = [i \in 0..(Prod(global_grid_size) - 1) |-> FieldValue(i)]
    /\ ref_global_field = global_field
    /\ local_field = [r \in Ranks |->
          [f \in 1..3 |-> IF f = field THEN ScatteredField(r)
                          ELSE ZeroArray(field_size_2d)]]
    /\ comm_requests = [r \in Ranks |-> <<>>]
    /\ completed = {}
    /\ eager_protocol \in BOOLEAN
    /\ eager_buffer = local_field
    /\ pc = [r \in Ranks |-> wrapper_steps[1]]
    /\ master_rank = 0
    /\ slave_ranks = <<>>
    /\ loop_pos = 0
    /\ in_flight = <<>>
    /\ gen_pc = "generate"
    /\ kernel_support = 0
    /\ returned_kernel_support = [r \in Ranks |-> 0]
    /\ invocation = 1
    /\ call_log = [r \in Ranks |-> <<>>]
    /\ program = <<>>
    /\ velocity_collection = <<>>
    /\ omega_collection = <<>>
    /\ velocity_field = <<>>
    /\ velocity_pc = "none"
    /\ system = <<>>
    /\ system_before = <<>>
    /\ apply_pc = "none"
    /\ apply_log = <<>>
    /\ flow_history = <<>>
    /\ forcing_grid_cls = "none"
    /\ grid_dim_arg = 0
    /\ body = <<>>
    /\ interactor_pc = <<>>
    /\ forcing_grid = <<>>
    /\ grid_object = <<>>
    /\ body_flow_forces = <<>>
    /\ body_flow_torques = <<>>
    /\ lag_grid_forcing_field = <<>>
    /\ transfers = 0
    /\ map_pc = "none"
    /\ marker_positions = <<>>
    /\ rank_positions = <<>>
    /\ classified = {}
    /\ local_indices = <<>>
    /\ scatter_map = <<>>
    /\ retired = <<>>
    /\ comm_class = "none"
    /\ ghost_size_arg = 0
    /\ on_master = FALSE
    /\ life_pc = "none"
    /\ committed_types = <<>>
    /\ freed_types = <<>>

NextCurl ==
    \/ gen_outplane_field_curl_pyst_mpi_kernel_2d /\ UNCHANGED <<topoVars, fieldVars, lifeVars, queueVars, markerVars, forcingVars, applyVars, velocityVars, matchVars>>
    \/ \E r \in Ranks : \E fld \in 1..3 :
            wrapper_exchange_init(r, fld) /\ UNCHANGED <<topoVars, fieldVars, lifeVars, queueVars, markerVars, forcingVars, applyVars, velocityVars, matchVars>>
    \/ \E dst \in Ranks : \E j \in 1..Len(comm_requests[dst]) :
            Transfer(dst, j) /\ UNCHANGED <<topoVars, fieldVars, curlVars, lifeVars, queueVars, markerVars, forcingVars, applyVars, velocityVars, matchVars>>
    \/ \E r \in Ranks : interior_kernel_call(r) /\ UNCHANGED <<topoVars, fieldVars, lifeVars, queueVars, markerVars, forcingVars, applyVars, velocityVars, matchVars>>
    \/ \E r \in Ranks : wrapper_exchange_finalise(r) /\ UNCHANGED <<topoVars, fieldVars, lifeVars, queueVars, markerVars, forcingVars, applyVars, velocityVars, matchVars>>
    \/ \E r \in Ranks : \E step \in {"y_start", "y_end", "x_start", "x_end"} :
            boundary_strip_kernel_call(r, step) /\ UNCHANGED <<topoVars, fieldVars, lifeVars, queueVars, markerVars, forcingVars, applyVars, velocityVars, matchVars>>
    \/ invoke_kernel_again /\ UNCHANGED <<topoVars, fieldVars, lifeVars, queueVars, markerVars, forcingVars, applyVars, velocityVars, matchVars>>

SpecCurl == InitCurl /\ [][NextCurl]_vars

\* ---- properties of the MPI curl kernel ----

AllReturned == \A r \in Ranks : pc[r] = "returned"

\* the rank that holds global cell g, and the cell of its arrays that holds it
OwnerRank2d(g) ==
    Get_cart_rank(<<0, g[2] \div local_grid_size[2], g[3] \div local_grid_size[3]>>)

LocalCell2d(g) ==
    <<0, (g[2] % local_grid_size[2]) + ghost_size,
         (g[3] % local_grid_size[3]) + ghost_size>>

\* global_curl[k] after gather_local_field(global_curl[k], local_curl[k])
GatheredCurl(k) ==
    [g \in CellsOf(global_grid_size) |-> local_field[OwnerRank2d(g)][k][LocalCell2d(g)]]

\* ref_curl: the single-rank kernel applied to zeros and the global field
RefCurl ==
    outplane_field_curl_pyst_kernel_2d(
        [f \in 1..3 |->
            IF f = field
            THEN [g \in CellsOf(global_grid_size) |->
                     ref_global_field[ravel_multi_index(g, global_grid_size)]]
            ELSE ZeroArray(global_grid_size)],
        full_slice(global_grid_size[2]), full_slice(global_grid_size[3]))

\* distance of global cell g from the boundary of the global domain
BoundaryDistance(g) ==
    LET d == {g[2], global_grid_size[2] - 1 - g[2],
              g[3], global_grid_size[3] - 1 - g[3]}
    IN  CHOOSE m \in d : \A n \in d : m <= n

C20_TwoRankCurlAgrees ==
    (/\ AllReturned
     /\ Prod(grid_topology) = 2
     /\ periodic_flag = FALSE
     /\ ghost_size \in 1..3) =>
        \A g \in CellsOf(global_grid_size) :
            BoundaryDistance(g) >= kernel_support =>
                /\ GatheredCurl(curl_0)[g] = RefCurl[curl_0][g]
                /\ GatheredCurl(curl_1)[g] = RefCurl[curl_1][g]

\* two cells next to the interface of an x split, one on each rank, both
\* away from the global boundary and with a non-zero curl
C20_Witness ==
    /\ AllReturned
    /\ grid_topology = <<1, 1, 2>>
    /\ periodic_flag = FALSE
    /\ ghost_size = 1
    /\ local_grid_size = <<1, 3, 3>>
    /\ \E g \in CellsOf(global_grid_size) :
          LET h == <<g[1], g[2], g[3] + 1>>
          IN  /\ h \in CellsOf(global_grid_size)
              /\ OwnerRank2d(g) = 0
              /\ OwnerRank2d(h) = 1
              /\ BoundaryDistance(g) >= kernel_support
              /\ BoundaryDistance(h) >= kernel_support
              /\ \A c \in {g, h} :
                    /\ GatheredCurl(curl_1)[c] # 0
                    /\ GatheredCurl(curl_1)[c] = RefCurl[curl_1][c]
                    /\ GatheredCurl(curl_0)[c] = RefCurl[curl_0][c]

IsPrefix(s, t) == Len(s) <= Len(t) /\ \A n \in 1..Len(s) : s[n] = t[n]

\* position of a call in a rank's log, 0 if the rank has not made it
LogPos(rank, call) ==
    IF \E n \in 1..Len(call_log[rank]) : call_log[rank][n] = call
    THEN CHOOSE n \in 1..Len(call_log[rank]) : call_log[rank][n] = call
    ELSE 0

\* C5: on every rank the calls come in the order init(curl[0]), init(curl[1]),
\* init(field), interior kernel, exchange_finalise, then the strips Y-start,
\* Y-end, X-start, X-end: no strip before finalise, no interior call before
\* the three inits, and each call at most once.
C5_WrapperCallOrder ==
    \A r \in Ranks :
        /\ IsPrefix(call_log[r],
              <<"exchange_init_curl_0", "exchange_init_curl_1",
                "exchange_init_field", "interior", "exchange_finalise",
                "y_start", "y_end", "x_start", "x_end">>)
        /\ \A strip \in {"y_start", "y_end", "x_start", "x_end"} :
              LogPos(r, strip) # 0 =>
                  /\ LogPos(r, "exchange_finalise") # 0
                  /\ LogPos(r, "exchange_finalise") < LogPos(r, strip)
        /\ LogPos(r, "interior") # 0 => LogPos(r, "exchange_init_field") = 3
        /\ pc[r] = "returned" => Len(call_log[r]) = 9

C5_Witness ==
    /\ Prod(grid_topology) = 2
    /\ pc[0] = "returned"
    /\ pc[1] = "y_start"
    /\ Len(call_log[0]) = 9

\* C6 as stated: when the kernel's exception reaches the caller, the rank
\* has called exchange_finalise and its request queue is empty.
C6_FinalisedWhenKernelRaises ==
    \A r \in Ranks :
        (gen_pc = "generated" /\ pc[r] = "raised") =>
            /\ LogPos(r, "exchange_finalise") # 0
            /\ comm_requests[r] = <<>>

\* C7: with ghost_size below the kernel support the generator fails and
\* returns no kernel, and while no kernel was returned no rank has posted an
\* exchange or invoked a kernel.
C7_GeneratorChecksGhostSize ==
    /\ (gen_pc # "generate" /\ ghost_size < kernel_support) => gen_pc = "ValueError"
    /\ gen_pc # "generated" =>
          \A r \in Ranks : call_log[r] = <<>> /\ comm_requests[r] = <<>>

C7_Witness ==
    /\ gen_pc = "ValueError"
    /\ ghost_size = 0
    /\ kernel_support = 1

\* the number of entries of rank's log that are calls
Calls(rank, calls) ==
    Cardinality({n \in 1..Len(call_log[rank]) : call_log[rank][n] \in calls})

\* C28: a call of the wrapper that returns normally has posted its three
\* exchange inits and called exchange_finalise exactly once, and in every
\* invocation a rank that has returned has an empty request queue.
C28_WrapperBalancesExchange ==
    \A r \in Ranks :
        LET inits == Calls(r, {"exchange_init_curl_0", "exchange_init_curl_1",
                               "exchange_init_field"})
            finalises == Calls(r, {"exchange_finalise"})
        IN  /\ inits <= 3
            /\ finalises <= 1
            /\ finalises = 1 => (inits = 3 /\ comm_requests[r] = <<>>)
            /\ pc[r] = "returned" => finalises = 1
            /\ call_log[r] = <<>> => comm_requests[r] = <<>>

\* two ranks have returned from their second invocation
C28_Witness ==
    /\ invocation = 2
    /\ Prod(grid_topology) = 2
    /\ \A r \in Ranks : pc[r] = "returned" /\ comm_requests[r] = <<>>

\* C27 as stated: from the moment the generator has returned the kernel, the
\* kernel's own kernel_support attribute reads 1 on every rank, invoked or
\* not, and keeps that value.
C27_ReturnedKernelCarriesSupport ==
    gen_pc = "generated" => \A r \in Ranks : returned_kernel_support[r] = 1

\* ---- the cells the wrapper's kernel calls write ----

\* the call `step` of rank has returned normally
CallReturned(rank, step) ==
    \E n \in 1..Len(call_log[rank]) :
        /\ call_log[rank][n] = step
        /\ (n < Len(call_log[rank]) \/ pc[rank] # "raised")

\* the cells of curl[0] and of curl[1] the call `step` writes
CallWrites(step) == kernel_writes(ViewRows(step), ViewCols(step))

\* rank is between its three exchange inits and its exchange_finalise
ExchangeInFlight(rank) ==
    /\ LogPos(rank, "exchange_init_field") # 0
    /\ LogPos(rank, "exchange_finalise") = 0

\* the cells rank has written while its exchange was in flight
WrittenInFlight(rank) ==
    IF ExchangeInFlight(rank) /\ CallReturned(rank, "interior")
    THEN CallWrites("interior") ELSE {}

\* the cells of the array fld that rank's posted requests to a real
\* neighbour send from or receive into
SlabsInFlight(rank, fld) ==
    UNION {SubarrayCells(comm_requests[rank][n].type) :
             n \in {m \in 1..Len(comm_requests[rank]) :
                      /\ comm_requests[rank][m].fld = fld
                      /\ comm_requests[rank][m].peer # PROC_NULL}}

\* C23 as stated: while its exchange is in flight a rank writes no cell of
\* curl[0] or curl[1] that lies in a slab being sent or received, whatever
\* the ghost size the generator accepted (the kernel never writes field).
C23_NoWriteIntoSlabsInFlight ==
    \A r \in Ranks : \A fld \in {curl_0, curl_1} :
        WrittenInFlight(r) \cap SlabsInFlight(r, fld) = {}

\* the cells the boundary strips of rank have written so far
WrittenByStrips(rank) ==
    UNION {CallWrites(step) :
             step \in {s \in {"y_start", "y_end", "x_start", "x_end"} :
                         CallReturned(rank, s)}}

\* the inner cells less than kernel_support away from the inner region's edge
BoundaryShell ==
    {c \in CellsOf(field_size_2d) :
        /\ IsInner2d(c)
        /\ \/ c[2] < ghost_size + kernel_support
           \/ c[2] >= field_size_2d[2] - ghost_size - kernel_support
           \/ c[3] < ghost_size + kernel_support
           \/ c[3] >= field_size_2d[3] - ghost_size - kernel_support}

\* C24 as stated: the boundary strips write only cells of the boundary shell
\* of the inner region, and once the four have run they have written all of
\* it, whatever the ghost size the generator accepted.
C24_StripsWriteExactlyShell ==
    \A r \in Ranks :
        /\ WrittenByStrips(r) \subseteq BoundaryShell
        /\ pc[r] = "returned" => WrittenByStrips(r) = BoundaryShell

\* the cells written by the kernel calls of rank that have returned
WrittenByCalls(rank) ==
    UNION {CallWrites(step) :
             step \in {s \in {"interior", "y_start", "y_end", "x_start", "x_end"} :
                         CallReturned(rank, s)}}

\* the four corner cells of the inner region
InnerCorners ==
    {<<0, y, x>> : y \in {ghost_size, field_size_2d[2] - ghost_size - 1},
                   x \in {ghost_size, field_size_2d[3] - ghost_size - 1}}

\* C34: with a ghost size the generator accepted, once the interior call and
\* the four strip calls of a rank have returned they have written every
\* inner cell of the output, the corners of the inner region included.
C34_CallsCoverInnerRegion ==
    \A r \in Ranks :
        (gen_pc = "generated" /\ pc[r] = "returned") =>
            \A c \in CellsOf(field_size_2d) : IsInner2d(c) => c \in WrittenByCalls(r)

\* a rank with ghost size 2 and a 3 x 3 inner region has returned; its
\* corners are written by the X strips and by no other call
C34_Witness ==
    /\ AllReturned
    /\ ghost_size = 2
    /\ ghost_size > kernel_support
    /\ local_grid_size = <<1, 3, 3>>
    /\ InnerCorners \subseteq WrittenByCalls(0)
    /\ InnerCorners \cap (CallWrites("interior") \cup CallWrites("y_start")
                            \cup CallWrites("y_end")) = {}

\* =========================================================================
\*  Construction and lifetime of the communicators
\* =========================================================================
\* ghost_size_arg holds twice the argument, so that a non-integer such as 1.5
\* is the odd number 3.

\* isinstance(ghost_size, int)
IsInt(arg2) == arg2 % 2 = 0

\* the integer an integer conversion makes of the argument (toward zero)
Truncated(arg2) == IF arg2 >= 0 THEN arg2 \div 2 ELSE -((-arg2) \div 2)

\* ghost_size <= 0 and not isinstance(ghost_size, int), line 93
GhostSizeRefused(arg2) == arg2 <= 0 /\ ~IsInt(arg2)

\* ghost_size < 0 and not isinstance(ghost_size, int), line 309
FieldGhostSizeRefused(arg2) == arg2 < 0 /\ ~IsInt(arg2)

\* MPI_Type_create_subarray accepts the arguments
ValidSubarray(t) ==
    \A a \in Axes :
        /\ t.subsizes[a] >= 1
        /\ t.subsizes[a] <= t.sizes[a]
        /\ t.starts[a] >= 0
        /\ t.starts[a] <= t.sizes[a] - t.subsizes[a]

\* the descriptors MPIGhostCommunicator3D.__init__ creates, in order
GhostTypes ==
    << [name |-> "send_next_along_x_type", type |-> send_next_along_x_type],
       [name |-> "recv_next_along_x_type", type |-> recv_next_along_x_type],
       [name |-> "send_previous_along_x_type", type |-> send_previous_along_x_type],
       [name |-> "recv_previous_along_x_type", type |-> recv_previous_along_x_type],
       [name |-> "send_next_along_y_type", type |-> send_next_along_y_type],
       [name |-> "recv_next_along_y_type", type |-> recv_next_along_y_type],
       [name |-> "send_previous_along_y_type", type |-> send_previous_along_y_type],
       [name |-> "recv_previous_along_y_type", type |-> recv_previous_along_y_type],
       [name |-> "send_next_along_z_type", type |-> send_next_along_z_type],
       [name |-> "recv_next_along_z_type", type |-> recv_next_along_z_type],
       [name |-> "send_previous_along_z_type", type |-> send_previous_along_z_type],
       [name |-> "recv_previous_along_z_type", type |-> recv_previous_along_z_type] >>

\* the descriptor MPIFieldCommunicator3D.__init__ creates, lines 326-341
FieldTypes ==
    << [name |-> "sub_array_type",
        type |-> IF on_master
                 THEN Create_subarray(global_grid_size, local_grid_size, <<0, 0, 0>>)
                 ELSE Create_subarray(field_size, local_grid_size,
                                      <<ghost_size, ghost_size, ghost_size>>)] >>

TypesToCreate == IF comm_class = "ghost" THEN GhostTypes ELSE FieldTypes

\* the guard at the top of __init__ and self.ghost_size = ghost_size,
\* lines 93-98 and 309-314
CheckGhostSize ==
    /\ life_pc = "check"
    /\ IF \/ comm_class = "ghost" /\ GhostSizeRefused(ghost_size_arg)
          \/ comm_class = "field" /\ FieldGhostSizeRefused(ghost_size_arg)
       THEN life_pc' = "ValueError" /\ UNCHANGED ghost_size
       ELSE life_pc' = "create" /\ ghost_size' = Truncated(ghost_size_arg)
    /\ UNCHANGED <<comm_class, ghost_size_arg, on_master, committed_types,
                   freed_types, comm_requests>>

\* one Create_subarray and Commit of __init__.  A non-integer size is either
\* refused by the binding (TypeError) or converted to an integer; arguments
\* MPI rejects raise its error.  After the last descriptor the ghost
\* communicator initialises its request list (line 192).
CreateAndCommit ==
    /\ life_pc = "create"
    /\ LET k == Len(committed_types) + 1
           last == k = Len(TypesToCreate)
       IN  \E refuses \in BOOLEAN :
             IF ~IsInt(ghost_size_arg) /\ k = 1 /\ refuses
             THEN /\ life_pc' = "TypeError"
                  /\ UNCHANGED <<committed_types, comm_requests>>
             ELSE IF ~ValidSubarray(TypesToCreate[k].type)
             THEN /\ life_pc' = "MPIError"
                  /\ UNCHANGED <<committed_types, comm_requests>>
             ELSE /\ committed_types' = Append(committed_types, TypesToCreate[k].name)
                  /\ life_pc' = IF last THEN "constructed" ELSE "create"
                  /\ comm_requests' = IF last /\ comm_class = "ghost"
                                      THEN <<>> ELSE comm_requests
    /\ UNCHANGED <<comm_class, ghost_size_arg, on_master, freed_types, ghost_size>>

\* the object is dropped at the end of the run: neither class defines a
\* destructor or a method that frees its descriptors
EndOfLifetime ==
    /\ life_pc = "constructed"
    /\ life_pc' = "dropped"
    /\ UNCHANGED <<comm_class, ghost_size_arg, on_master, committed_types,
                   freed_types, ghost_size, comm_requests>>

GhostSizeArgs == (-2 * MaxGhost)..(2 * MaxGhost + 1)

\* the state when the constructor of one communicator is entered on one rank
InitLife ==
    /\ ctor_pc = "constructed"
    /\ grid_topology \in GhostTopologies
    /\ world_size = Prod(grid_topology)
    /\ rank_distribution_arg = grid_topology
    /\ rank_distribution = grid_topology
    /\ local_grid_size \in LocalGridSizes
    /\ global_grid_size = [a \in Axes |-> local_grid_size[a] * grid_topology[a]]
    /\ periodic_flag = FALSE
    /\ cart_created = TRUE
    /\ ghost_size = 0
    /\ local_field = <<>>
    /\ comm_requests = <<"unset">>
    /\ completed = {}
    /\ eager_protocol = FALSE
    /\ eager_buffer = <<>>
    /\ pc = <<>>
    /\ master_rank = 0
    /\ slave_ranks = <<>>
    /\ loop_pos = 0
    /\ global_field = <<>>
    /\ ref_global_field = <<>>
    /\ in_flight = <<>>
    /\ gen_pc = "generate"
    /\ kernel_support = 0
    /\ returned_kernel_support = <<>>
    /\ invocation = 0
    /\ call_log = <<>>
    /\ program = <<>>
    /\ velocity_collection = <<>>
    /\ omega_collection = <<>>
    /\ velocity_field = <<>>
    /\ velocity_pc = "none"
    /\ system = <<>>
    /\ system_before = <<>>
    /\ apply_pc = "none"
    /\ apply_log = <<>>
    /\ flow_history = <<>>
    /\ forcing_grid_cls = "none"
    /\ grid_dim_arg = 0
    /\ body = <<>>
    /\ interactor_pc = <<>>
    /\ forcing_grid = <<>>
    /\ grid_object = <<>>
    /\ body_flow_forces = <<>>
    /\ body_flow_torques = <<>>
    /\ lag_grid_forcing_field = <<>>
    /\ transfers = 0
    /\ map_pc = "none"
    /\ marker_positions = <<>>
    /\ rank_positions = <<>>
    /\ classified = {}
    /\ local_indices = <<>>
    /\ scatter_map = <<>>
    /\ retired = <<>>
    /\ comm_class \in {"ghost", "field"}
    /\ ghost_size_arg \in GhostSizeArgs
    /\ on_master \in BOOLEAN
    /\ life_pc = "check"
    /\ committed_types = <<>>
    /\ freed_types = <<>>

lifeFrame == <<topoVars, local_field, completed, eager_protocol, eager_buffer, pc,
               fieldVars, curlVars, queueVars, markerVars, forcingVars,
        applyVars, velocityVars, matchVars>>

NextLife ==
    \/ CheckGhostSize /\ UNCHANGED lifeFrame
    \/ CreateAndCommit /\ UNCHANGED lifeFrame
    \/ EndOfLifetime /\ UNCHANGED lifeFrame

SpecLife == InitLife /\ [][NextLife]_vars

\* ---- properties of construction and lifetime ----

\* C11 as stated: the ghost communicator's constructor ends in ValueError,
\* with no descriptor created, for every ghost_size that is not an integer
\* greater than 0.
C11_GhostSizeValidated ==
    (/\ comm_class = "ghost"
     /\ life_pc # "check"
     /\ (ghost_size_arg <= 0 \/ ~IsInt(ghost_size_arg)))
        => (life_pc = "ValueError" /\ committed_types = <<>>)

\* ghost_size 0 was accepted and the inner region is the whole local array
ZeroGhostAccepted ==
    /\ life_pc \in {"create", "constructed", "dropped"}
    /\ ghost_size = 0
    /\ field_size = local_grid_size
    /\ \A d \in CellsOf(local_grid_size) : inner_idx(d) = d

\* C29 as stated: the field communicator's constructor ends in ValueError for
\* every ghost_size that is not an integer greater than or equal to 0, and it
\* accepts ghost_size 0, with which the inner region is the whole local array.
C29_FieldGhostSizeValidated ==
    (comm_class = "field" /\ life_pc # "check") =>
        /\ (ghost_size_arg < 0 \/ ~IsInt(ghost_size_arg)) => life_pc = "ValueError"
        /\ ghost_size_arg = 0 => ZeroGhostAccepted

\* how many times descriptor name occurs in the sequence seq
Occurrences(seq, name) == Cardinality({n \in 1..Len(seq) : seq[n] = name})

\* C13 as stated: when the communicator's lifetime has ended, every
\* descriptor it committed has been released exactly once, and no descriptor
\* is ever released twice.
C13_DescriptorsReleasedOnce ==
    /\ \A n \in 1..Len(freed_types) : Occurrences(freed_types, freed_types[n]) = 1
    /\ life_pc = "dropped" =>
          \A n \in 1..Len(committed_types) :
              Occurrences(freed_types, committed_types[n]) = 1

\* =========================================================================
\*  The request queue of MPIGhostCommunicator3D over several calls
\* =========================================================================

\* the requests of this kind and peer in the queue of rank
QueuedCount(rank, kind, peer) ==
    Cardinality({i \in 1..Len(comm_requests[rank]) :
        /\ comm_requests[rank][i].kind = kind
        /\ comm_requests[rank][i].peer = peer})

CanCall(rank) == pc[rank] = "ready" /\ Len(call_log[rank]) < MaxCalls

\* exchange_scalar_field_init(local_field) called at any time, lines 194-281
exchange_scalar_field_init_call(rank, fld) ==
    /\ CanCall(rank)
    /\ comm_requests' = [comm_requests EXCEPT
                            ![rank] = @ \o ScalarFieldRequests(rank, fld)]
    /\ eager_buffer' = [eager_buffer EXCEPT ![rank][fld] = local_field[rank][fld]]
    /\ call_log' = [call_log EXCEPT
                       ![rank] = Append(@, <<"exchange_scalar_field_init", fld>>)]
    /\ UNCHANGED <<ghost_size, local_field, completed, eager_protocol, pc, retired>>

\* a vector init that posts the components in the order 2, 1, 0
exchange_vector_field_init_reversed(rank) ==
    /\ CanCall(rank)
    /\ comm_requests' = [comm_requests EXCEPT
          ![rank] = @ \o ScalarFieldRequests(rank, 3)
                      \o ScalarFieldRequests(rank, 2)
                      \o ScalarFieldRequests(rank, 1)]
    /\ eager_buffer' = [eager_buffer EXCEPT ![rank] = local_field[rank]]
    /\ call_log' = [call_log EXCEPT
                       ![rank] = Append(@, <<"exchange_vector_field_init", 0>>)]
    /\ UNCHANGED <<ghost_size, local_field, completed, eager_protocol, pc, retired>>

\* exchange_vector_field_init(local_vector_field), lines 283-286: the scalar
\* init on components 0, 1, 2 (field ids 1, 2, 3)
exchange_vector_field_init(rank) ==
    /\ CanCall(rank)
    /\ comm_requests' = [comm_requests EXCEPT
          ![rank] = @ \o ScalarFieldRequests(rank, 1)
                      \o ScalarFieldRequests(rank, 2)
                      \o ScalarFieldRequests(rank, 3)]
    /\ eager_buffer' = [eager_buffer EXCEPT ![rank] = local_field[rank]]
    /\ call_log' = [call_log EXCEPT
                       ![rank] = Append(@, <<"exchange_vector_field_init", 0>>)]
    /\ UNCHANGED <<ghost_size, local_field, completed, eager_protocol, pc, retired>>

\* exchange_finalise() called at any time, lines 288-294: Waitall returns
\* once every queued request is complete (at once on an empty list), then
\* the list is reset
exchange_finalise_call(rank) ==
    /\ CanCall(rank)
    /\ \A i \in 1..Len(comm_requests[rank]) : RequestComplete(rank, i)
    /\ retired' = [retired EXCEPT ![rank] =
          [kind \in {"send", "recv"} |-> [peer \in DOMAIN @[kind] |->
              @[kind][peer] + QueuedCount(rank, kind, peer)]]]
    /\ comm_requests' = [comm_requests EXCEPT ![rank] = <<>>]
    /\ completed' = {q \in completed : q[1] # rank}
    /\ call_log' = [call_log EXCEPT ![rank] = Append(@, <<"exchange_finalise", 0>>)]
    /\ UNCHANGED <<ghost_size, local_field, eager_protocol, eager_buffer, pc>>

QueueTopologies == {<<1, 1, 1>>, <<1, 1, 2>>}

\* the state after MPIGhostCommunicator3D was constructed on every rank
\* (its queue is the empty list of line 192); the fields are np.zeros, so
\* that a message carries the same values whenever its buffer is read
InitQueue ==
    /\ ctor_pc = "constructed"
    /\ grid_topology \in QueueTopologies
    /\ world_size = Prod(grid_topology)
    /\ rank_distribution_arg = grid_topology
    /\ rank_distribution = grid_topology
    /\ local_grid_size = <<1, 1, 1>>
    /\ global_grid_size = [a \in Axes |-> local_grid_size[a] * grid_topology[a]]
    /\ periodic_flag \in CurlPeriodicFlags(grid_topology)
    /\ cart_created = TRUE
    /\ ghost_size = 1
    /\ local_field = [r \in Ranks |-> [f \in 1..3 |-> ZeroArray(field_size)]]
    /\ comm_requests = [r \in Ranks |-> <<>>]
    /\ completed = {}
    /\ eager_protocol = FALSE
    /\ eager_buffer = local_field
    /\ pc = [r \in Ranks |-> "ready"]
    /\ master_rank = 0
    /\ slave_ranks = <<>>
    /\ loop_pos = 0
    /\ global_field = <<>>
    /\ ref_global_field = <<>>
    /\ in_flight = <<>>
    /\ gen_pc = "generate"
    /\ kernel_support = 0
    /\ returned_kernel_support = <<>>
    /\ invocation = 0
    /\ call_log = [r \in Ranks |-> <<>>]
    /\ program = <<>>
    /\ velocity_collection = <<>>
    /\ omega_collection = <<>>
    /\ velocity_field = <<>>
    /\ velocity_pc = "none"
    /\ system = <<>>
    /\ system_before = <<>>
    /\ apply_pc = "none"
    /\ apply_log = <<>>
    /\ flow_history = <<>>
    /\ forcing_grid_cls = "none"
    /\ grid_dim_arg = 0
    /\ body = <<>>
    /\ interactor_pc = <<>>
    /\ forcing_grid = <<>>
    /\ grid_object = <<>>
    /\ body_flow_forces = <<>>
    /\ body_flow_torques = <<>>
    /\ lag_grid_forcing_field = <<>>
    /\ transfers = 0
    /\ map_pc = "none"
    /\ marker_positions = <<>>
    /\ rank_positions = <<>>
    /\ classified = {}
    /\ local_indices = <<>>
    /\ scatter_map = <<>>
    /\ comm_class = "none"
    /\ ghost_size_arg = 0
    /\ on_master = FALSE
    /\ life_pc = "none"
    /\ committed_types = <<>>
    /\ freed_types = <<>>
    /\ retired = [r \in Ranks |-> [kind \in {"send", "recv"} |->
                     [peer \in Ranks \cup {PROC_NULL} |-> 0]]]

queueFrame == <<topoVars, fieldVars, gen_pc, kernel_support,
                returned_kernel_support, invocation, lifeVars, markerVars,
                forcingVars,
                applyVars, velocityVars, matchVars>>

NextQueue ==
    \/ \E r \in Ranks : \E fld \in 1..2 :
            exchange_scalar_field_init_call(r, fld) /\ UNCHANGED queueFrame
    \/ \E r \in Ranks : exchange_vector_field_init(r) /\ UNCHANGED queueFrame
    \/ \E dst \in Ranks : \E j \in 1..Len(comm_requests[dst]) :
            Transfer(dst, j) /\ UNCHANGED <<queueFrame, call_log, retired>>
    \/ \E r \in Ranks : exchange_finalise_call(r) /\ UNCHANGED queueFrame

SpecQueue == InitQueue /\ [][NextQueue]_vars

\* ---- properties of the request queue ----

QueueLog(rank, n) == call_log[rank][n]

IsInitCall(entry) ==
    entry[1] \in {"exchange_scalar_field_init", "exchange_vector_field_init"}

\* the fields a logged call posts requests for, in posting order
FieldsOf(entry) ==
    IF entry[1] = "exchange_scalar_field_init" THEN <<entry[2]>>
    ELSE IF entry[1] = "exchange_vector_field_init" THEN <<1, 2, 3>>
    ELSE <<>>

\* position of the last exchange_finalise in the rank's log, 0 if none
LastFinalise(rank) ==
    LET f == {n \in 1..Len(call_log[rank]) : QueueLog(rank, n)[1] = "exchange_finalise"}
    IN  IF f = {} THEN 0 ELSE CHOOSE n \in f : \A m \in f : m <= n

RECURSIVE FieldsFrom(_, _)
\* the fields posted by the calls n, n + 1, ... of the rank's log
FieldsFrom(rank, n) ==
    IF n > Len(call_log[rank]) THEN <<>>
    ELSE FieldsOf(QueueLog(rank, n)) \o FieldsFrom(rank, n + 1)

\* the fields with requests pending: those posted since the last finalise
PendingFields(rank) == FieldsFrom(rank, LastFinalise(rank) + 1)

\* the k-th block of 12 requests in the queue of rank
Block(rank, k) == SubSeq(comm_requests[rank], 12 * (k - 1) + 1, 12 * k)

\* the axis along which a face descriptor's slab is ghost_size thick
ThinAxis(req) ==
    CHOOSE b \in Axes :
        /\ req.type.subsizes[b] = ghost_size
        /\ \A o \in Axes \ {b} : req.type.subsizes[o] = field_size[o]

\* C12: the queue of every rank holds exactly 12 requests per scalar init
\* posted since the last exchange_finalise (three scalar inits, on components
\* 0, 1, 2 in that order, per vector init): for each of them a send and a
\* receive toward each of the 6 neighbours; it is empty after construction
\* and after every exchange_finalise.
C12_QueueAccounting ==
    \A r \in Ranks :
        /\ Len(comm_requests[r]) = 12 * Len(PendingFields(r))
        /\ \A k \in 1..Len(PendingFields(r)) :
              /\ \A n \in 1..12 : Block(r, k)[n].fld = PendingFields(r)[k]
              /\ \A a \in Axes : \A side \in {"previous", "next"} :
                    \A kind \in {"send", "recv"} :
                       Cardinality({n \in 1..12 :
                          /\ Block(r, k)[n].kind = kind
                          /\ Block(r, k)[n].peer =
                                (IF side = "next" THEN next_grid_along(r, a)
                                 ELSE previous_grid_along(r, a))
                          /\ ThinAxis(Block(r, k)[n]) = a}) >= 1
              /\ Cardinality({n \in 1..12 : Block(r, k)[n].kind = "send"}) = 6
        /\ (call_log[r] = <<>> \/ LastFinalise(r) = Len(call_log[r]))
              => comm_requests[r] = <<>>

C12_Witness ==
    /\ Prod(grid_topology) = 2
    /\ Len(call_log[0]) = 2
    /\ QueueLog(0, 1)[1] = "exchange_vector_field_init"
    /\ QueueLog(0, 2)[1] = "exchange_finalise"
    /\ comm_requests[0] = <<>>
    /\ Len(comm_requests[1]) = 48

\* a round of inits is posted on a field that already has requests pending,
\* or exchange_finalise is called with nothing pending
Unbalanced(rank) ==
    \E n \in 1..Len(call_log[rank]) :
        \/ /\ QueueLog(rank, n)[1] = "exchange_finalise"
           /\ (n = 1 \/ QueueLog(rank, n - 1)[1] = "exchange_finalise")
        \/ /\ IsInitCall(QueueLog(rank, n))
           /\ \E m \in 1..(n - 1) :
                 /\ \A o \in m..(n - 1) : IsInitCall(QueueLog(rank, o))
                 /\ \E i \in 1..Len(FieldsOf(QueueLog(rank, m))) :
                    \E j \in 1..Len(FieldsOf(QueueLog(rank, n))) :
                       FieldsOf(QueueLog(rank, m))[i] = FieldsOf(QueueLog(rank, n))[j]

\* C14 as stated: a rank whose calls were unbalanced has had a state error
\* reported to it.
C14_UnbalancedExchangeReported ==
    \A r \in Ranks : Unbalanced(r) => pc[r] = "StateError"

\* =========================================================================
\*  Every rank making the same calls of MPIGhostCommunicator3D
\* =========================================================================
\* The ranks run one program: each posts the same inits, on the same fields
\* in the same order, and calls exchange_finalise after each.

ScalarInit(fld) == <<"exchange_scalar_field_init", fld>>

VectorInit == <<"exchange_vector_field_init", 0>>

Finalise == <<"exchange_finalise", 0>>

\* MaxCalls calls: rounds of one init (of a scalar or of a vector, i.e. of
\* three fields) followed by exchange_finalise
Programs ==
    {p \in [1..MaxCalls -> {ScalarInit(1), ScalarInit(2), VectorInit, Finalise}] :
        \A n \in 1..MaxCalls : (p[n] = Finalise) <=> (n % 2 = 0)}

\* the call the rank makes next, <<>> when its program has ended
NextCall(rank) ==
    IF Len(call_log[rank]) < Len(program)
    THEN program[Len(call_log[rank]) + 1] ELSE <<>>

program_scalar_field_init(rank) ==
    /\ NextCall(rank) # <<>>
    /\ NextCall(rank)[1] = "exchange_scalar_field_init"
    /\ exchange_scalar_field_init_call(rank, NextCall(rank)[2])

program_vector_field_init(rank) ==
    /\ NextCall(rank) = VectorInit
    /\ exchange_vector_field_init(rank)

program_finalise(rank) ==
    /\ NextCall(rank) = Finalise
    /\ exchange_finalise_call(rank)

\* the state after MPIGhostCommunicator3D was constructed on every rank and
\* each rank has filled its fields
InitMatch ==
    /\ ctor_pc = "constructed"
    /\ grid_topology \in QueueTopologies
    /\ world_size = Prod(grid_topology)
    /\ rank_distribution_arg = grid_topology
    /\ rank_distribution = grid_topology
    /\ local_grid_size = <<1, 1, 2>>
    /\ global_grid_size = [a \in Axes |-> local_grid_size[a] * grid_topology[a]]
    /\ periodic_flag \in BOOLEAN
    /\ cart_created = TRUE
    /\ ghost_size = 1
    /\ local_field = [r \in Ranks |-> [f \in 1..3 |-> TaggedField(r, f)]]
    /\ comm_requests = [r \in Ranks |-> <<>>]
    /\ completed = {}
    /\ eager_protocol \in BOOLEAN
    /\ eager_buffer = local_field
    /\ pc = [r \in Ranks |-> "ready"]
    /\ master_rank = 0
    /\ slave_ranks = <<>>
    /\ loop_pos = 0
    /\ global_field = <<>>
    /\ ref_global_field = <<>>
    /\ in_flight = <<>>
    /\ gen_pc = "generate"
    /\ kernel_support = 0
    /\ returned_kernel_support = <<>>
    /\ invocation = 0
    /\ call_log = [r \in Ranks |-> <<>>]
    /\ program \in Programs
    /\ velocity_collection = <<>>
    /\ omega_collection = <<>>
    /\ velocity_field = <<>>
    /\ velocity_pc = "none"
    /\ system = <<>>
    /\ system_before = <<>>
    /\ apply_pc = "none"
    /\ apply_log = <<>>
    /\ flow_history = <<>>
    /\ forcing_grid_cls = "none"
    /\ grid_dim_arg = 0
    /\ body = <<>>
    /\ interactor_pc = <<>>
    /\ forcing_grid = <<>>
    /\ grid_object = <<>>
    /\ body_flow_forces = <<>>
    /\ body_flow_torques = <<>>
    /\ lag_grid_forcing_field = <<>>
    /\ transfers = 0
    /\ map_pc = "none"
    /\ marker_positions = <<>>
    /\ rank_positions = <<>>
    /\ classified = {}
    /\ local_indices = <<>>
    /\ scatter_map = <<>>
    /\ comm_class = "none"
    /\ ghost_size_arg = 0
    /\ on_master = FALSE
    /\ life_pc = "none"
    /\ committed_types = <<>>
    /\ freed_types = <<>>
    /\ retired = [r \in Ranks |-> [kind \in {"send", "recv"} |->
                     [peer \in Ranks \cup {PROC_NULL} |-> 0]]]

NextMatch ==
    \/ \E r \in Ranks : program_scalar_field_init(r) /\ UNCHANGED queueFrame
    \/ \E r \in Ranks : program_vector_field_init(r) /\ UNCHANGED queueFrame
    \/ \E dst \in Ranks : \E j \in 1..Len(comm_requests[dst]) :
            Transfer(dst, j) /\ UNCHANGED <<queueFrame, call_log, retired>>
    \/ \E r \in Ranks : program_finalise(r) /\ UNCHANGED queueFrame

SpecMatch == InitMatch /\ [][NextMatch]_vars

\* Every rank's process keeps running and the MPI library delivers a matched
\* message: a step that stays possible is taken.
SpecMatchLive == SpecMatch /\ WF_vars(NextMatch)

\* ---- properties of the matching ----

\* the send goes out of the slab that opposes the halo the receive fills, on
\* the same axis
OpposingSlabs(s, r) ==
    \E d \in FaceDirections : s.type = d.send /\ r.type = d.recv

\* every rank has returned from the last call of the program
ProgramEnded == \A r \in Ranks : call_log[r] = program

\* the fields whose exchange rank has finalised
FinalisedFields(rank) ==
    {fld \in 1..3 :
        \E n \in 1..LastFinalise(rank) : \E k \in 1..Len(FieldsOf(QueueLog(rank, n))) :
            FieldsOf(QueueLog(rank, n))[k] = fld}

\* receive j is the one the library lands next on rank dst
NextToLand(dst, j) ==
    /\ comm_requests[dst][j].kind = "recv"
    /\ ~RequestComplete(dst, j)
    /\ EarlierReceivesLanded(dst, j)

\* C31: with untagged messages, whatever the topology (also when the previous
\* and the next neighbour are one rank, or the rank itself) and with several
\* fields posted before one finalise, each receive is matched, when its turn
\* to land comes, with the send of the opposing slab of the same axis and the
\* same field; once a rank has finalised, each face halo of each field it
\* exchanged holds the neighbour's opposing inner slab of that field.
C31_ReceivesMatchOpposingSends ==
    /\ \A dst \in Ranks : \A j \in 1..Len(comm_requests[dst]) :
          NextToLand(dst, j) =>
              \A i \in MatchingSends(dst, j) :
                  LET s == comm_requests[comm_requests[dst][j].peer][i]
                      r == comm_requests[dst][j]
                  IN  s.fld = r.fld /\ OpposingSlabs(s, r)
    /\ \A r \in Ranks : \A fld \in FinalisedFields(r) : \A c \in HaloCells(1) :
          MirrorsOwner(r, fld, c)

\* two ranks on a periodic axis, each the other's previous and next
\* neighbour, have exchanged the three fields of a vector
C31_Witness ==
    /\ ProgramEnded
    /\ grid_topology = <<1, 1, 2>>
    /\ periodic_flag
    /\ program = <<VectorInit, Finalise>>
    /\ previous_grid_along(0, x_axis) = 1
    /\ next_grid_along(0, x_axis) = 1
    /\ next_grid_along(0, y_axis) = 0
    /\ \A c \in HaloCells(1) : local_field[0][3][c][2] = 3

\* the receives that rank src's send i can be matched with
MatchingReceives(src, i) ==
    LET dst == comm_requests[src][i].peer
    IN  IF dst = PROC_NULL THEN {}
        ELSE {j \in 1..Len(comm_requests[dst]) : Matches(src, i, dst, j)}

\* every rank has posted the inits of a round and none has finalised it
RoundPosted == \A r \in Ranks : NextCall(r) = Finalise /\ Len(call_log[r]) = Len(call_log[0])

\* every request to a real neighbour has exactly one partner
OneToOne ==
    \A r \in Ranks : \A i \in 1..Len(comm_requests[r]) :
        comm_requests[r][i].peer # PROC_NULL =>
            IF comm_requests[r][i].kind = "recv"
            THEN Cardinality(MatchingSends(r, i)) = 1
            ELSE Cardinality(MatchingReceives(r, i)) = 1

\* rank's next call is exchange_finalise
AtFinalise(rank) == rank \in Ranks /\ NextCall(rank) = Finalise

\* rank is past the exchange_finalise it called
PastFinalise(rank) == rank \in Ranks /\ NextCall(rank) # Finalise

\* C32: when every rank posts the same inits in the same order and then
\* calls exchange_finalise, every posted receive has exactly one matching
\* send and every posted send exactly one matching receive, and
\* exchange_finalise returns on every rank: every rank gets to the end of the
\* program.
C32_FinaliseReturns ==
    /\ [](RoundPosted => OneToOne)
    /\ AtFinalise(0) ~> PastFinalise(0)
    /\ AtFinalise(1) ~> PastFinalise(1)
    /\ <>ProgramEnded

\* two ranks on an axis that is not periodic have both returned from the
\* finalise of a scalar exchange
C32_Witness ==
    /\ ProgramEnded
    /\ grid_topology = <<1, 1, 2>>
    /\ ~periodic_flag
    /\ program[1] = ScalarInit(2)
    /\ \A r \in Ranks : LastFinalise(r) = 2 /\ comm_requests[r] = <<>>

\* =========================================================================
\*  The Lagrangian field communicator: rank_and_map
\* =========================================================================
\* Positions are whole numbers of half cells: a cell is marker_dx units wide.

marker_dx == 2

\* floor(pos / dx)
MarkerCell(pos) ==
    IF pos >= 0 THEN pos \div marker_dx ELSE -((marker_dx - 1 - pos) \div marker_dx)

\* a classification without the rule for the global upper boundary
OwnsAlong_floor_only(rank, a, pos) ==
    /\ Get_coords(rank)[a] * local_grid_size[a] <= MarkerCell(pos)
    /\ MarkerCell(pos) < (Get_coords(rank)[a] + 1) * local_grid_size[a]

\* along axis a, floor(pos / dx) falls in the inner cell range of the rank;
\* a marker on the global upper boundary belongs to the last cell
OwnsAlong(rank, a, pos) ==
    LET cell == IF pos = global_grid_size[a] * marker_dx
                THEN global_grid_size[a] - 1 ELSE MarkerCell(pos)
    IN  /\ Get_coords(rank)[a] * local_grid_size[a] <= cell
        /\ cell < (Get_coords(rank)[a] + 1) * local_grid_size[a]

Owns(rank, position) == \A a \in Axes : OwnsAlong(rank, a, position[a])

\* rank_and_map, first step: the master broadcasts the positions
BroadcastPositions ==
    /\ map_pc = "broadcast"
    /\ rank_positions' = [r \in Ranks |-> marker_positions]
    /\ map_pc' = "classify"
    /\ UNCHANGED <<marker_positions, classified, local_indices, scatter_map>>

\* rank_and_map, second and third step on one rank: classify the markers and
\* record local_indices
ClassifyMarkers(rank) ==
    /\ map_pc = "classify"
    /\ rank \notin classified
    /\ local_indices' = [local_indices EXCEPT ![rank] =
          {i \in 1..Len(rank_positions[rank]) : Owns(rank, rank_positions[rank][i])}]
    /\ classified' = classified \cup {rank}
    /\ UNCHANGED <<map_pc, marker_positions, rank_positions, scatter_map>>

\* rank_and_map, last step: the local_indices of every rank are gathered on
\* the master
GatherLocalIndices ==
    /\ map_pc = "classify"
    /\ classified = Ranks
    /\ scatter_map' = local_indices
    /\ map_pc' = "mapped"
    /\ UNCHANGED <<marker_positions, rank_positions, classified, local_indices>>

MaxMarkers == 1

\* the coordinates a marker takes along axis a: below the domain, inside it
\* (on every half cell of an axis that is split), on its upper boundary, above
MarkerCoordinates(a) ==
    IF grid_topology[a] = 1
    THEN {-1, 1, global_grid_size[a] * marker_dx}
    ELSE (-1)..(global_grid_size[a] * marker_dx + 1)

MarkerPositions ==
    {<<z, y, x>> : z \in MarkerCoordinates(1), y \in MarkerCoordinates(2),
                   x \in MarkerCoordinates(3)}

\* the state when rank_and_map(positions_global) is called
InitMarker ==
    /\ ctor_pc = "constructed"
    /\ grid_topology \in GhostTopologies
    /\ world_size = Prod(grid_topology)
    /\ rank_distribution_arg = grid_topology
    /\ rank_distribution = grid_topology
    /\ local_grid_size = <<1, 1, 1>>
    /\ global_grid_size = [a \in Axes |-> local_grid_size[a] * grid_topology[a]]
    /\ periodic_flag = FALSE
    /\ cart_created = TRUE
    /\ ghost_size = 0
    /\ local_field = <<>>
    /\ comm_requests = <<>>
    /\ completed = {}
    /\ eager_protocol = FALSE
    /\ eager_buffer = <<>>
    /\ pc = <<>>
    /\ master_rank \in Ranks
    /\ slave_ranks = <<>>
    /\ loop_pos = 0
    /\ global_field = <<>>
    /\ ref_global_field = <<>>
    /\ in_flight = <<>>
    /\ gen_pc = "generate"
    /\ kernel_support = 0
    /\ returned_kernel_support = <<>>
    /\ invocation = 0
    /\ call_log = <<>>
    /\ program = <<>>
    /\ velocity_collection = <<>>
    /\ omega_collection = <<>>
    /\ velocity_field = <<>>
    /\ velocity_pc = "none"
    /\ system = <<>>
    /\ system_before = <<>>
    /\ apply_pc = "none"
    /\ apply_log = <<>>
    /\ flow_history = <<>>
    /\ forcing_grid_cls = "none"
    /\ grid_dim_arg = 0
    /\ body = <<>>
    /\ interactor_pc = <<>>
    /\ forcing_grid = <<>>
    /\ grid_object = <<>>
    /\ body_flow_forces = <<>>
    /\ body_flow_torques = <<>>
    /\ lag_grid_forcing_field = <<>>
    /\ transfers = 0
    /\ comm_class = "none"
    /\ ghost_size_arg = 0
    /\ on_master = FALSE
    /\ life_pc = "none"
    /\ committed_types = <<>>
    /\ freed_types = <<>>
    /\ retired = <<>>
    /\ map_pc = "broadcast"
    /\ \E n \in 1..MaxMarkers : marker_positions \in [1..n -> MarkerPositions]
    /\ rank_positions = [r \in Ranks |-> <<>>]
    /\ classified = {}
    /\ local_indices = [r \in Ranks |-> {}]
    /\ scatter_map = <<>>

markerFrame == <<topoVars, ghostVars, fieldVars, curlVars, lifeVars, queueVars,
                 forcingVars,
        applyVars, velocityVars, matchVars>>

NextMarker ==
    \/ BroadcastPositions /\ UNCHANGED markerFrame
    \/ \E r \in Ranks : ClassifyMarkers(r) /\ UNCHANGED markerFrame
    \/ GatherLocalIndices /\ UNCHANGED markerFrame

SpecMarker == InitMarker /\ [][NextMarker]_vars

\* ---- properties of marker ownership ----

MarkerIndices == 1..Len(marker_positions)

InDomain(position) ==
    \A a \in Axes : position[a] >= 0 /\ position[a] <= global_grid_size[a] * marker_dx

OwnersOf(i) == {r \in Ranks : i \in scatter_map[r]}

\* the rank whose block has, along every axis, the marker strictly inside or
\* on its lower face, or on the global upper boundary for the last block
ExpectedOwner(position) ==
    Get_cart_rank([a \in Axes |->
        IF position[a] = global_grid_size[a] * marker_dx
        THEN grid_topology[a] - 1
        ELSE position[a] \div (local_grid_size[a] * marker_dx)])

\* C15 as stated: after rank_and_map on any positions, every marker has
\* exactly one owner.
C15_MarkerOwnershipPartition_AnyPosition ==
    map_pc = "mapped" =>
        \A i \in MarkerIndices : Cardinality(OwnersOf(i)) = 1

\* C15: after rank_and_map, every marker inside the global domain (its upper
\* boundary included) has exactly one owner: a marker on an internal upper
\* face belongs to the higher neighbour, one on the global upper boundary to
\* the last rank; no index outside 0..N-1 is owned.
C15_MarkerOwnershipPartition ==
    map_pc = "mapped" =>
        /\ \A r \in Ranks : scatter_map[r] \subseteq MarkerIndices
        /\ \A i \in MarkerIndices :
              InDomain(marker_positions[i]) =>
                  OwnersOf(i) = {ExpectedOwner(marker_positions[i])}

C15_Witness ==
    /\ map_pc = "mapped"
    /\ grid_topology = <<1, 1, 2>>
    /\ marker_positions[1] = <<1, 2, 2>>
    /\ scatter_map[1] = {1}
    /\ scatter_map[0] = {}

\* =========================================================================
\*  Forcing grids and the immersed-body flow interactor
\* =========================================================================
\* A body_flow array is a sequence of three rows, a row a sequence of
\* columns; a field over the Lagrangian grid is a sequence of one vector
\* per marker. Marker forces are even, so that 0.5 * f is a whole number.

RECURSIVE SumSeq(_)
SumSeq(s) == IF s = <<>> THEN 0 ELSE Head(s) + SumSeq(Tail(s))

Zeros(rows, cols) == [r \in 1..rows |-> [c \in 1..cols |-> 0]]

\* component k of u x v
CrossAt(u, v, k) ==
    IF k = 1 THEN u[2] * v[3] - u[3] * v[2]
    ELSE IF k = 2 THEN u[3] * v[1] - u[1] * v[3]
    ELSE u[1] * v[2] - u[2] * v[1]

MatVec(Q, v) == [i \in 1..3 |-> Q[i][1] * v[1] + Q[i][2] * v[2] + Q[i][3] * v[3]]

TransposeMat(Q) == [i \in 1..3 |-> [j \in 1..3 |-> Q[j][i]]]

Half(x) == x \div 2

\* np.rint of num / den: to the nearest whole number, halves to the even one
Rint(num, den) ==
    LET q == num \div den
        rem == num % den
    IN  IF 2 * rem < den THEN q
        ELSE IF 2 * rem > den THEN q + 1
        ELSE IF q % 2 = 0 THEN q ELSE q + 1

RigidBodyClasses == {"CircularCylinderForcingGrid", "ThreeDimensionalRigidBodyForcingGrid"}

RodClasses == {"CosseratRodElementCentricForcingGrid", "CosseratRodSurfaceForcingGrid"}

ForcingGridClasses == RigidBodyClasses \cup RodClasses

rigid_body_dim == 3

\* ---- the Cosserat rod surface grid's layout ----

MaxRadius(b) == CHOOSE r \in {b.radius[i] : i \in 1..b.n_elems} :
                    \A i \in 1..b.n_elems : b.radius[i] <= r

\* a layout that keeps two markers on an element
surface_grid_points_two_kept(b) ==
    [i \in 1..b.n_elems |->
        LET p == Rint(b.radius[i] * b.surface_grid_density_for_largest_element,
                      MaxRadius(b))
        IN  IF p < 2 THEN 1 ELSE p]

surface_grid_points(b) ==
    [i \in 1..b.n_elems |->
        LET p == Rint(b.radius[i] * b.surface_grid_density_for_largest_element,
                      MaxRadius(b))
        IN  IF p < 3 THEN 1 ELSE p]

\* zero-based, as in the code: the markers of element i are start_idx..end_idx-1
start_idx(b, i) == SumSeq([k \in 1..(i - 1) |-> surface_grid_points(b)[k]])

end_idx(b, i) == start_idx(b, i) + surface_grid_points(b)[i]

ElementOf(b, m) == CHOOSE i \in 1..b.n_elems : start_idx(b, i) < m /\ m <= end_idx(b, i)

\* (cos, sin, 0) of the k-th of four angles 0, pi/2, pi, 3pi/2
QuarterCircle == <<<<1, 0, 0>>, <<0, 1, 0>>, <<-1, 0, 0>>, <<0, -1, 0>>>>

local_frame_surface_points(b, m) ==
    LET i == ElementOf(b, m)
    IN  IF surface_grid_points(b)[i] = 1 THEN <<0, 0, 0>>
        ELSE QuarterCircle[m - start_idx(b, i)]

\* moment_arm = grid_point_radius * (director^T . local_frame_surface_points)
SurfaceMomentArm(b) ==
    [m \in 1..SumSeq(surface_grid_points(b)) |->
        LET i == ElementOf(b, m)
            arm == MatVec(TransposeMat(b.director_collection[i]),
                          local_frame_surface_points(b, m))
        IN  [k \in 1..3 |-> b.radius[i] * arm[k]]]

\* ---- the rigid bodies' marker positions ----

\* radius * (cos theta, sin theta) at theta = dtheta/2 + k * dtheta for 1, 2
\* and 4 forcing points, with the radius that makes the coordinates whole
CylinderRing(n) ==
    IF n = 1 THEN <<<<-1, 0, 0>>>>
    ELSE IF n = 2 THEN <<<<0, 1, 0>>, <<0, -1, 0>>>>
    ELSE <<<<1, 1, 0>>, <<-1, 1, 0>>, <<-1, -1, 0>>, <<1, -1, 0>>>>

\* the first n points of a lattice on the body's surface
SurfaceLattice(n) == SubSeq(<<<<1, 0, 0>>, <<0, 1, 0>>, <<0, 0, 1>>>>, 1, n)

\* Q[:grid_dim, :grid_dim].T . local, for grid_dim = 2
CylinderGlobalFrame(b) ==
    LET Q == b.director_collection[1]
        ring == CylinderRing(b.num_forcing_points)
    IN  [m \in 1..Len(ring) |->
            <<Q[1][1] * ring[m][1] + Q[2][1] * ring[m][2],
              Q[1][2] * ring[m][1] + Q[2][2] * ring[m][2], 0>>]

RigidBodyGlobalFrame(b) ==
    [m \in 1..b.num_forcing_points |->
        MatVec(TransposeMat(b.director_collection[1]),
               SurfaceLattice(b.num_forcing_points)[m])]

\* ---- constructors ----
\* The result of a constructor: whether it raised ValueError, whether
\* ImmersedBodyForcingGrid.__init__ allocated position_field and
\* velocity_field, and the fields the transfer reads.

\* an object of which no field was set
NoGrid ==
    [raised |-> FALSE, fields_allocated |-> FALSE, num_lag_nodes |-> 0,
     global_frame_relative_position_field |-> <<>>, moment_arm |-> <<>>,
     surface_grid_points |-> <<>>, start_idx |-> <<>>, end_idx |-> <<>>,
     rod_director_collection_transpose |-> <<>>]

RaisedValueError == [NoGrid EXCEPT !.raised = TRUE]

SurfaceGrid(b) ==
    [NoGrid EXCEPT !.fields_allocated = TRUE,
                   !.num_lag_nodes = SumSeq(surface_grid_points(b)),
                   !.moment_arm = SurfaceMomentArm(b),
                   !.surface_grid_points = surface_grid_points(b),
                   !.start_idx = [i \in 1..b.n_elems |-> start_idx(b, i)],
                   !.end_idx = [i \in 1..b.n_elems |-> end_idx(b, i)]]

\* a surface grid whose base class is initialised before the check
CosseratRodSurfaceForcingGrid_init_check_last(gd, b) ==
    IF gd # 3
    THEN [RaisedValueError EXCEPT !.fields_allocated = TRUE]
    ELSE SurfaceGrid(b)

CircularCylinderForcingGrid_init(gd, b) ==
    IF gd # 2
    THEN RaisedValueError
    ELSE [NoGrid EXCEPT !.fields_allocated = TRUE,
                        !.num_lag_nodes = b.num_forcing_points,
                        !.global_frame_relative_position_field = CylinderGlobalFrame(b)]

ThreeDimensionalRigidBodyForcingGrid_init(gd, b) ==
    IF gd # 3
    THEN RaisedValueError
    ELSE [NoGrid EXCEPT !.fields_allocated = TRUE,
                        !.num_lag_nodes = b.num_forcing_points,
                        !.global_frame_relative_position_field = RigidBodyGlobalFrame(b)]

CosseratRodElementCentricForcingGrid_init(gd, b) ==
    [NoGrid EXCEPT !.fields_allocated = TRUE, !.num_lag_nodes = b.n_elems]

CosseratRodSurfaceForcingGrid_init(gd, b) ==
    IF gd # 3
    THEN RaisedValueError
    ELSE SurfaceGrid(b)

ForcingGridInit(cls, gd, b) ==
    IF cls = "CircularCylinderForcingGrid" THEN CircularCylinderForcingGrid_init(gd, b)
    ELSE IF cls = "ThreeDimensionalRigidBodyForcingGrid"
         THEN ThreeDimensionalRigidBodyForcingGrid_init(gd, b)
    ELSE IF cls = "CosseratRodElementCentricForcingGrid"
         THEN CosseratRodElementCentricForcingGrid_init(gd, b)
    ELSE CosseratRodSurfaceForcingGrid_init(gd, b)

\* ---- transfer_forcing_from_grid_to_body ----
\* Each gives the body_flow arrays after the call.

ColumnSum(f, k) == SumSeq([m \in 1..Len(f) |-> f[m][k]])

\* a cylinder transfer that forgets Newton's third law
TwoDimensionalCylinder_transfer_same_sign(forces, torques, f) ==
    [forces |-> [row \in 1..3 |->
                    IF row <= grid_dim_arg
                    THEN [c \in 1..Len(forces[row]) |-> ColumnSum(f, row)]
                    ELSE forces[row]],
     torques |-> [row \in 1..3 |->
                    IF row = grid_dim_arg + 1
                    THEN [c \in 1..Len(torques[row]) |->
                            body.director_collection[1][grid_dim_arg + 1][grid_dim_arg + 1]
                            * SumSeq([m \in 1..Len(f) |->
                                  grid_object.global_frame_relative_position_field[m][1] * f[m][2]
                                  - grid_object.global_frame_relative_position_field[m][2] * f[m][1]])]
                    ELSE torques[row]]]

TwoDimensionalCylinder_transfer(forces, torques, f) ==
    [forces |-> [row \in 1..3 |->
                    IF row <= grid_dim_arg
                    THEN [c \in 1..Len(forces[row]) |-> -ColumnSum(f, row)]
                    ELSE forces[row]],
     torques |-> [row \in 1..3 |->
                    IF row = grid_dim_arg + 1
                    THEN [c \in 1..Len(torques[row]) |->
                            body.director_collection[1][grid_dim_arg + 1][grid_dim_arg + 1]
                            * SumSeq([m \in 1..Len(f) |->
                                  -grid_object.global_frame_relative_position_field[m][1] * f[m][2]
                                  + grid_object.global_frame_relative_position_field[m][2] * f[m][1]])]
                    ELSE torques[row]]]

ThreeDimensionalRigidBody_transfer(forces, torques, f) ==
    LET moment(k) ==
            SumSeq([m \in 1..Len(f) |->
                CrossAt(grid_object.global_frame_relative_position_field[m], f[m], k)])
        Q == body.director_collection[1]
    IN  [forces |-> [row \in 1..3 |-> [c \in 1..Len(forces[row]) |-> -ColumnSum(f, row)]],
         torques |-> [row \in 1..3 |-> [c \in 1..Len(torques[row]) |->
                        -(Q[row][1] * moment(1) + Q[row][2] * moment(2)
                          + Q[row][3] * moment(3))]]]

\* an element-centric transfer that does not zero body_flow_forces first
CosseratRodElementCentric_transfer_accumulating(forces, torques, f) ==
    [forces |-> [row \in 1..3 |-> [c \in 1..Len(forces[row]) |->
                    IF row <= grid_dim_arg
                    THEN forces[row][c] - (IF c > 1 THEN Half(f[c - 1][row]) ELSE 0)
                           - (IF c <= Len(f) THEN Half(f[c][row]) ELSE 0)
                    ELSE forces[row][c]]],
     torques |-> torques]

CosseratRodElementCentric_transfer(forces, torques, f) ==
    [forces |-> [row \in 1..3 |-> [c \in 1..Len(forces[row]) |->
                    IF row <= grid_dim_arg
                    THEN 0 - (IF c > 1 THEN Half(f[c - 1][row]) ELSE 0)
                           - (IF c <= Len(f) THEN Half(f[c][row]) ELSE 0)
                    ELSE 0]],
     torques |-> torques]

\* component k of np.sum(field[:, start_idx[i]:end_idx[i]], axis=1)
SumOnElement(fld, i, k) ==
    SumSeq([j \in 1..(grid_object.end_idx[i] - grid_object.start_idx[i]) |->
               fld[grid_object.start_idx[i] + j][k]])

\* a surface transfer that gives the whole element force to node i
CosseratRodSurface_transfer_first_node(forces, torques, f) ==
    [forces |-> [row \in 1..3 |-> [c \in 1..Len(forces[row]) |->
                    0 - (IF c <= body.n_elems THEN SumOnElement(f, c, row) ELSE 0)]],
     torques |-> torques]

CosseratRodSurface_transfer(forces, torques, f) ==
    LET \* component k of _batch_cross(moment_arm, -lag_grid_forcing_field)[:, m]
        lag_grid_torque_field(m, k) ==
            CrossAt(grid_object.moment_arm[m], <<-f[m][1], -f[m][2], -f[m][3]>>, k)
        elem_torque(i, k) ==
            SumSeq([j \in 1..(grid_object.end_idx[i] - grid_object.start_idx[i]) |->
                       lag_grid_torque_field(grid_object.start_idx[i] + j, k)])
    IN  [forces |-> [row \in 1..3 |-> [c \in 1..Len(forces[row]) |->
                        0 - (IF c > 1 THEN Half(SumOnElement(f, c - 1, row)) ELSE 0)
                          - (IF c <= body.n_elems
                             THEN Half(SumOnElement(f, c, row)) ELSE 0)]],
         torques |-> [row \in 1..3 |-> [c \in 1..Len(torques[row]) |->
                        body.director_collection[c][row][1] * elem_torque(c, 1)
                        + body.director_collection[c][row][2] * elem_torque(c, 2)
                        + body.director_collection[c][row][3] * elem_torque(c, 3)]]]

transfer_forcing_from_grid_to_body(cls, forces, torques, f) ==
    IF cls = "CircularCylinderForcingGrid"
    THEN TwoDimensionalCylinder_transfer(forces, torques, f)
    ELSE IF cls = "ThreeDimensionalRigidBodyForcingGrid"
         THEN ThreeDimensionalRigidBody_transfer(forces, torques, f)
    ELSE IF cls = "CosseratRodElementCentricForcingGrid"
         THEN CosseratRodElementCentric_transfer(forces, torques, f)
    ELSE CosseratRodSurface_transfer(forces, torques, f)

\* ---- the flow interactor ----

\* an interactor that builds the real forcing grid on every rank
InteractorForcingGridClass_everywhere(rank) == forcing_grid_cls

\* the forcing grid an interactor holds: the real one on the master, the
\* zero-sized stand-in elsewhere
InteractorForcingGridClass(rank) ==
    IF rank = master_rank THEN forcing_grid_cls ELSE "EmptyForcingGrid"

EmptyForcingGrid_init == NoGrid

\* columns of body_flow_forces and of body_flow_torques
ForceColumns == IF forcing_grid_cls \in RodClasses THEN body.n_elems + 1 ELSE 1

TorqueColumns == IF forcing_grid_cls \in RodClasses THEN body.n_elems ELSE 1

\* the interactor's constructor on one rank
ConstructInteractor(rank) ==
    /\ interactor_pc[rank] = "init"
    /\ LET cls == InteractorForcingGridClass(rank)
           g == IF cls = "EmptyForcingGrid" THEN EmptyForcingGrid_init
                ELSE ForcingGridInit(cls, grid_dim_arg, body)
       IN  /\ interactor_pc' = [interactor_pc EXCEPT ![rank] =
                                    IF g.raised THEN "raised" ELSE "constructed"]
           /\ IF g.raised
              THEN UNCHANGED <<forcing_grid, body_flow_forces, body_flow_torques>>
              ELSE /\ forcing_grid' = [forcing_grid EXCEPT ![rank] = cls]
                   /\ body_flow_forces' = [body_flow_forces EXCEPT ![rank] =
                                              Zeros(rigid_body_dim, ForceColumns)]
                   /\ body_flow_torques' = [body_flow_torques EXCEPT ![rank] =
                                              Zeros(rigid_body_dim, TorqueColumns)]
           /\ grid_object' = IF cls = "EmptyForcingGrid" THEN grid_object ELSE g
    /\ UNCHANGED <<forcing_grid_cls, grid_dim_arg, body, lag_grid_forcing_field,
                   transfers>>

MaxTransfers == 2

\* the forces a marker can carry, grid_dim components each
BaseForce == SubSeq(<<2, -4, 6>>, 1, grid_dim_arg)

OtherForce == SubSeq(<<-2, 0, 4>>, 1, grid_dim_arg)

\* the gathered marker forces: every marker carries the base force but for
\* at most two, which carry the other
ForcingFields(n) ==
    {[m \in 1..n |-> IF m \in S THEN OtherForce ELSE BaseForce] :
        S \in {{}} \cup {{m1, m2} : m1 \in 1..n, m2 \in 1..n}}

\* the master reduces the gathered marker forces to the body
TransferForcing(rank) ==
    /\ interactor_pc[rank] = "constructed"
    /\ forcing_grid[rank] \in ForcingGridClasses
    /\ transfers < MaxTransfers
    /\ \E f \in ForcingFields(grid_object.num_lag_nodes) :
          LET after == transfer_forcing_from_grid_to_body(
                           forcing_grid[rank], body_flow_forces[rank],
                           body_flow_torques[rank], f)
          IN  /\ body_flow_forces' = [body_flow_forces EXCEPT ![rank] = after.forces]
              /\ body_flow_torques' = [body_flow_torques EXCEPT ![rank] = after.torques]
              /\ lag_grid_forcing_field' = f
    /\ transfers' = transfers + 1
    /\ UNCHANGED <<forcing_grid_cls, grid_dim_arg, body, interactor_pc, forcing_grid,
                   grid_object>>

MaxElems == 2

Identity3 == <<<<1, 0, 0>>, <<0, 1, 0>>, <<0, 0, 1>>>>

\* rotations: none, a quarter turn about z, a half turn about x
Directors ==
    {Identity3,
     <<<<0, 1, 0>>, <<-1, 0, 0>>, <<0, 0, 1>>>>,
     <<<<1, 0, 0>>, <<0, -1, 0>>, <<0, 0, -1>>>>}

Body(n, radius, density, points, directors) ==
    [n_elems |-> n, radius |-> radius,
     surface_grid_density_for_largest_element |-> density,
     num_forcing_points |-> points, director_collection |-> directors]

Bodies(cls) ==
    IF cls = "CircularCylinderForcingGrid"
    THEN {Body(1, <<1>>, 4, p, <<Q>>) : p \in {1, 2, 4}, Q \in Directors}
    ELSE IF cls = "ThreeDimensionalRigidBodyForcingGrid"
    THEN {Body(1, <<1>>, 4, p, <<Q>>) : p \in 1..2, Q \in Directors}
    ELSE IF cls = "CosseratRodElementCentricForcingGrid"
    THEN {Body(n, [i \in 1..n |-> 1], 4, 0, [i \in 1..n |-> Identity3]) :
              n \in 1..MaxElems}
    ELSE UNION {{Body(n, radius, density, 0, [i \in 1..n |-> IF i = 1 THEN Q1 ELSE Q2]) :
                    radius \in [1..n -> 1..2], density \in {2, 4},
                    Q1 \in Directors, Q2 \in Directors} : n \in 1..MaxElems}

\* the rods are built on one rank, the rigid bodies on one and on two
InteractorTopologies(cls) ==
    IF cls \in RodClasses THEN {<<1, 1, 1>>} ELSE QueueTopologies

InitForcing ==
    /\ ctor_pc = "constructed"
    /\ forcing_grid_cls \in ForcingGridClasses
    /\ grid_topology \in InteractorTopologies(forcing_grid_cls)
    /\ world_size = Prod(grid_topology)
    /\ rank_distribution_arg = grid_topology
    /\ rank_distribution = grid_topology
    /\ local_grid_size = <<1, 1, 1>>
    /\ global_grid_size = [a \in Axes |-> local_grid_size[a] * grid_topology[a]]
    /\ periodic_flag = FALSE
    /\ cart_created = TRUE
    /\ ghost_size = 0
    /\ local_field = <<>>
    /\ comm_requests = <<>>
    /\ completed = {}
    /\ eager_protocol = FALSE
    /\ eager_buffer = <<>>
    /\ pc = <<>>
    /\ master_rank \in Ranks
    /\ slave_ranks = <<>>
    /\ loop_pos = 0
    /\ global_field = <<>>
    /\ ref_global_field = <<>>
    /\ in_flight = <<>>
    /\ gen_pc = "generate"
    /\ kernel_support = 0
    /\ returned_kernel_support = <<>>
    /\ invocation = 0
    /\ call_log = <<>>
    /\ program = <<>>
    /\ velocity_collection = <<>>
    /\ omega_collection = <<>>
    /\ velocity_field = <<>>
    /\ velocity_pc = "none"
    /\ system = <<>>
    /\ system_before = <<>>
    /\ apply_pc = "none"
    /\ apply_log = <<>>
    /\ flow_history = <<>>
    /\ comm_class = "none"
    /\ ghost_size_arg = 0
    /\ on_master = FALSE
    /\ life_pc = "none"
    /\ committed_types = <<>>
    /\ freed_types = <<>>
    /\ retired = <<>>
    /\ map_pc = "none"
    /\ marker_positions = <<>>
    /\ rank_positions = <<>>
    /\ classified = {}
    /\ local_indices = <<>>
    /\ scatter_map = <<>>
    /\ grid_dim_arg \in 1..grid_dim
    /\ body \in Bodies(forcing_grid_cls)
    /\ interactor_pc = [r \in Ranks |-> "init"]
    /\ forcing_grid = [r \in Ranks |-> "none"]
    /\ grid_object = NoGrid
    /\ body_flow_forces = [r \in Ranks |-> <<>>]
    /\ body_flow_torques = [r \in Ranks |-> <<>>]
    /\ lag_grid_forcing_field = <<>>
    /\ transfers = 0

forcingFrame == <<topoVars, ghostVars, fieldVars, curlVars, lifeVars, queueVars, markerVars,
        applyVars, velocityVars, matchVars>>

NextForcing ==
    \/ \E r \in Ranks : ConstructInteractor(r) /\ UNCHANGED forcingFrame
    \/ \E r \in Ranks : TransferForcing(r) /\ UNCHANGED forcingFrame

SpecForcing == InitForcing /\ [][NextForcing]_vars

\* ---- the layout of the rod surface grid alone ----

MaxRodRadius == 3

MaxDensity == 5

\* rods of up to MaxElems elements with radii 1..MaxRodRadius, tapered or
\* not, and a surface grid density of 1..MaxDensity
LayoutRods ==
    UNION {{Body(n, radius, density, 0, [i \in 1..n |-> Identity3]) :
               radius \in [1..n -> 1..MaxRodRadius], density \in 1..MaxDensity} :
           n \in 1..MaxElems}

\* lines 119-130: the loop over the elements, from element i on, with the
\* running start_idx_temp
RECURSIVE IdxLoop(_, _, _, _)
IdxLoop(points, i, start_idx_temp, acc) ==
    IF i > Len(points) THEN acc
    ELSE IdxLoop(points, i + 1, start_idx_temp + points[i],
                 [start_idx |-> Append(acc.start_idx, start_idx_temp),
                  end_idx |-> Append(acc.end_idx, start_idx_temp + points[i])])

\* CosseratRodSurfaceForcingGrid.__init__, lines 90-130: the number of
\* markers of each element and the slices of the marker arrays
SurfaceLayout(b) ==
    LET idx == IdxLoop(surface_grid_points(b), 1, 0, [start_idx |-> <<>>, end_idx |-> <<>>])
    IN  [NoGrid EXCEPT !.fields_allocated = TRUE,
                       !.num_lag_nodes = SumSeq(surface_grid_points(b)),
                       !.surface_grid_points = surface_grid_points(b),
                       !.start_idx = idx.start_idx,
                       !.end_idx = idx.end_idx]

InitLayout ==
    /\ ctor_pc = "constructed"
    /\ forcing_grid_cls = "CosseratRodSurfaceForcingGrid"
    /\ grid_topology = <<1, 1, 1>>
    /\ world_size = Prod(grid_topology)
    /\ rank_distribution_arg = grid_topology
    /\ rank_distribution = grid_topology
    /\ local_grid_size = <<1, 1, 1>>
    /\ global_grid_size = [a \in Axes |-> local_grid_size[a] * grid_topology[a]]
    /\ periodic_flag = FALSE
    /\ cart_created = TRUE
    /\ ghost_size = 0
    /\ local_field = <<>>
    /\ comm_requests = <<>>
    /\ completed = {}
    /\ eager_protocol = FALSE
    /\ eager_buffer = <<>>
    /\ pc = <<>>
    /\ master_rank = 0
    /\ slave_ranks = <<>>
    /\ loop_pos = 0
    /\ global_field = <<>>
    /\ ref_global_field = <<>>
    /\ in_flight = <<>>
    /\ gen_pc = "generate"
    /\ kernel_support = 0
    /\ returned_kernel_support = <<>>
    /\ invocation = 0
    /\ call_log = <<>>
    /\ program = <<>>
    /\ velocity_collection = <<>>
    /\ omega_collection = <<>>
    /\ velocity_field = <<>>
    /\ velocity_pc = "none"
    /\ system = <<>>
    /\ system_before = <<>>
    /\ apply_pc = "none"
    /\ apply_log = <<>>
    /\ flow_history = <<>>
    /\ comm_class = "none"
    /\ ghost_size_arg = 0
    /\ on_master = FALSE
    /\ life_pc = "none"
    /\ committed_types = <<>>
    /\ freed_types = <<>>
    /\ retired = <<>>
    /\ map_pc = "none"
    /\ marker_positions = <<>>
    /\ rank_positions = <<>>
    /\ classified = {}
    /\ local_indices = <<>>
    /\ scatter_map = <<>>
    /\ grid_dim_arg = 3
    /\ body \in LayoutRods
    /\ interactor_pc = [r \in Ranks |-> "init"]
    /\ forcing_grid = [r \in Ranks |-> "none"]
    /\ grid_object = NoGrid
    /\ body_flow_forces = [r \in Ranks |-> <<>>]
    /\ body_flow_torques = [r \in Ranks |-> <<>>]
    /\ lag_grid_forcing_field = <<>>
    /\ transfers = 0

construct_surface_layout ==
    /\ grid_object = NoGrid
    /\ grid_object' = SurfaceLayout(body)
    /\ UNCHANGED <<forcing_grid_cls, grid_dim_arg, body, interactor_pc, forcing_grid,
                   body_flow_forces, body_flow_torques, lag_grid_forcing_field,
                   transfers>>

NextLayout == construct_surface_layout /\ UNCHANGED forcingFrame

SpecLayout == InitLayout /\ [][NextLayout]_vars

\* the elements that marker m (zero-based) belongs to
ElementsOf(m) ==
    {i \in 1..body.n_elems : grid_object.start_idx[i] <= m /\ m < grid_object.end_idx[i]}

Transferred(cls) ==
    /\ forcing_grid_cls = cls
    /\ interactor_pc[master_rank] = "constructed"
    /\ transfers >= 1

\* sum over the markers of the z component of r x f
MomentZ ==
    SumSeq([m \in 1..Len(lag_grid_forcing_field) |->
        grid_object.global_frame_relative_position_field[m][1] * lag_grid_forcing_field[m][2]
        - grid_object.global_frame_relative_position_field[m][2] * lag_grid_forcing_field[m][1]])

NetForceIsMinusSum ==
    \A k \in 1..2 :
        body_flow_forces[master_rank][k][1] = -ColumnSum(lag_grid_forcing_field, k)

\* C16 as stated: the 2D cylinder's body force is minus the sum of the marker
\* forces and its torque about z is director[2,2] times the sum of (r x f)_z.
C16_CylinderForceAndTorque_PlusMoment ==
    Transferred("CircularCylinderForcingGrid") =>
        /\ NetForceIsMinusSum
        /\ body_flow_torques[master_rank][3][1] =
               body.director_collection[1][3][3] * MomentZ

\* C16: the 2D cylinder's in-plane body force is minus the sum of the marker
\* forces and its torque about z is minus director[2,2] times the sum of
\* (r x f)_z, the moment of the reaction forces -f; the other components
\* keep their zeros.
C16_CylinderForceAndTorque ==
    Transferred("CircularCylinderForcingGrid") =>
        /\ NetForceIsMinusSum
        /\ body_flow_torques[master_rank][3][1] =
               -(body.director_collection[1][3][3] * MomentZ)
        /\ body_flow_forces[master_rank][3][1] = 0
        /\ body_flow_torques[master_rank][1][1] = 0
        /\ body_flow_torques[master_rank][2][1] = 0

C16_Witness ==
    /\ Transferred("CircularCylinderForcingGrid")
    /\ body.num_forcing_points = 2
    /\ body.director_collection[1][3][3] = -1
    /\ MomentZ = 4
    /\ body_flow_torques[master_rank][3][1] = 4
    /\ body_flow_forces[master_rank][2][1] = 4

\* the summed marker force of element i, component k (zero outside the rod
\* and beyond the grid's dimension)
ElementForce(i, k) ==
    IF i < 1 \/ i > body.n_elems \/ k > grid_dim_arg THEN 0
    ELSE IF forcing_grid_cls = "CosseratRodElementCentricForcingGrid"
         THEN lag_grid_forcing_field[i][k]
         ELSE SumSeq([m \in 1..Len(lag_grid_forcing_field) |->
                  IF grid_object.start_idx[i] < m /\ m <= grid_object.end_idx[i]
                  THEN lag_grid_forcing_field[m][k] ELSE 0])

\* C17: after either rod grid's transfer, node j holds minus half the summed
\* marker forces of elements j-1 and j, and the node forces add up to minus
\* the sum of all marker forces.
C17_RodForcesSplitToNodes ==
    (\E cls \in RodClasses : Transferred(cls)) =>
        \A k \in 1..3 :
            /\ \A j \in 1..(body.n_elems + 1) :
                  2 * body_flow_forces[master_rank][k][j] =
                      -(ElementForce(j - 1, k) + ElementForce(j, k))
            /\ SumSeq(body_flow_forces[master_rank][k]) =
                  -(IF k > grid_dim_arg THEN 0
                    ELSE ColumnSum(lag_grid_forcing_field, k))

C17_Witness ==
    /\ Transferred("CosseratRodSurfaceForcingGrid")
    /\ body.n_elems = 2
    /\ grid_object.surface_grid_points = <<4, 1>>
    /\ ElementForce(1, 1) = 4
    /\ ElementForce(2, 1) = -2
    /\ body_flow_forces[master_rank][1] = <<-2, -1, 1>>

\* ---- what a transfer overwrites and what it leaves ----

\* an array none of whose entries is zero or equals another
Filled(rows, cols) == [r \in 1..rows |-> [c \in 1..cols |-> 10 * r + c]]

\* values body_flow_forces and body_flow_torques may hold before a call
PriorForces == {Zeros(rigid_body_dim, ForceColumns), Filled(rigid_body_dim, ForceColumns)}

PriorTorques == {Zeros(rigid_body_dim, TorqueColumns), Filled(rigid_body_dim, TorqueColumns)}

\* the rows of body_flow_forces and of body_flow_torques a grid's transfer
\* assigns
WrittenForceRows(cls) ==
    IF cls = "CircularCylinderForcingGrid" THEN 1..grid_dim_arg ELSE 1..rigid_body_dim

WrittenTorqueRows(cls) ==
    IF cls = "CircularCylinderForcingGrid" THEN {grid_dim_arg + 1}
    ELSE IF cls = "CosseratRodElementCentricForcingGrid" THEN {}
    ELSE 1..rigid_body_dim

\* C37: for each of the four grids, with the marker forces of the last
\* transfer: the rows a transfer assigns do not depend on what the arrays
\* held before, so a second call with the same marker forces changes nothing;
\* every other row is left as it was, which is all of body_flow_torques for
\* the element-centric rod grid and, for the 2D cylinder, all but the two
\* in-plane force rows and the z torque row; and the master's arrays hold
\* what one call on zeroed arrays gives, however many transfers went before.
\* (What a call does to given arrays depends on the grid and the marker
\* forces only; it is looked at after the first transfer, which draws every
\* marker force field.)
C37_TransferOverwrites ==
    (transfers >= 1 /\ interactor_pc[master_rank] = "constructed") =>
        LET cls == forcing_grid_cls
            f == lag_grid_forcing_field
            fresh == transfer_forcing_from_grid_to_body(
                         cls, Zeros(rigid_body_dim, ForceColumns),
                         Zeros(rigid_body_dim, TorqueColumns), f)
        IN  /\ body_flow_forces[master_rank] = fresh.forces
            /\ body_flow_torques[master_rank] = fresh.torques
            /\ transfers = 1 => \A pf \in PriorForces : \A pt \in PriorTorques :
                  LET once == transfer_forcing_from_grid_to_body(cls, pf, pt, f)
                      twice == transfer_forcing_from_grid_to_body(
                                   cls, once.forces, once.torques, f)
                  IN  /\ twice = once
                      /\ \A row \in 1..rigid_body_dim :
                            /\ once.forces[row] =
                                  IF row \in WrittenForceRows(cls)
                                  THEN fresh.forces[row] ELSE pf[row]
                            /\ once.torques[row] =
                                  IF row \in WrittenTorqueRows(cls)
                                  THEN fresh.torques[row] ELSE pt[row]

\* a rod of two elements with the element-centric grid in two dimensions:
\* the second of two transfers, with marker forces that differ, left the
\* nodes with half of each neighbouring element's force
C37_Witness ==
    /\ Transferred("CosseratRodElementCentricForcingGrid")
    /\ transfers = 2
    /\ grid_dim_arg = 2
    /\ body.n_elems = 2
    /\ lag_grid_forcing_field = <<OtherForce, BaseForce>>
    /\ body_flow_forces[master_rank] = <<<<1, 0, -1>>, <<0, 2, 2>>, <<0, 0, 0>>>>
    /\ body_flow_torques[master_rank] = Zeros(rigid_body_dim, TorqueColumns)

Mismatched ==
    \/ forcing_grid_cls = "CircularCylinderForcingGrid" /\ grid_dim_arg # 2
    \/ forcing_grid_cls = "ThreeDimensionalRigidBodyForcingGrid" /\ grid_dim_arg # 3
    \/ forcing_grid_cls = "CosseratRodSurfaceForcingGrid" /\ grid_dim_arg # 3

\* C18: building the 2D cylinder grid with grid_dim other than 2, or the 3D
\* rigid-body grid or the rod surface grid with grid_dim other than 3, ends
\* in ValueError with no position or velocity field allocated and no grid
\* held; with the matching dimension the grid is built.
C18_DimensionMismatchIsFatal ==
    interactor_pc[master_rank] # "init" =>
        IF Mismatched
        THEN /\ interactor_pc[master_rank] = "raised"
             /\ ~grid_object.fields_allocated
             /\ forcing_grid[master_rank] = "none"
        ELSE /\ interactor_pc[master_rank] = "constructed"
             /\ grid_object.fields_allocated

C18_Witness ==
    /\ forcing_grid_cls = "CosseratRodSurfaceForcingGrid"
    /\ grid_dim_arg = 2
    /\ interactor_pc[master_rank] = "raised"
    /\ ~grid_object.fields_allocated

AllConstructed == \A r \in Ranks : interactor_pc[r] = "constructed"

\* C19: for every master_rank, once the rigid-body flow interactor is built
\* on every rank, the master and only the master holds the forcing grid of
\* the requested class, every other rank holds the EmptyForcingGrid, and on
\* all ranks body_flow_forces and body_flow_torques are 3x1 arrays of zeros.
C19_MasterHoldsForcingGrid ==
    (/\ forcing_grid_cls \in RigidBodyClasses
     /\ AllConstructed
     /\ transfers = 0) =>
        /\ {r \in Ranks : forcing_grid[r] = forcing_grid_cls} = {master_rank}
        /\ \A r \in Ranks \ {master_rank} : forcing_grid[r] = "EmptyForcingGrid"
        /\ \A r \in Ranks :
              /\ body_flow_forces[r] = <<<<0>>, <<0>>, <<0>>>>
              /\ body_flow_torques[r] = <<<<0>>, <<0>>, <<0>>>>

C19_Witness ==
    /\ forcing_grid_cls = "CircularCylinderForcingGrid"
    /\ Cardinality(Ranks) = 2
    /\ master_rank = 1
    /\ AllConstructed
    /\ transfers = 0
    /\ forcing_grid = [r \in Ranks |-> IF r = 1 THEN forcing_grid_cls
                                        ELSE "EmptyForcingGrid"]

\* =========================================================================
\*  FlowForces.apply_forces
\* =========================================================================
\* body_flow_forces and body_flow_torques are here the interactor's arrays on
\* the rank that calls apply_forces.

MatAdd(A, B) == [r \in 1..Len(A) |-> [c \in 1..Len(A[r]) |-> A[r][c] + B[r][c]]]

\* the forces and torques a coupling step can leave in the interactor
FlowForceValues == {<<<<1>>, <<0>>, <<-2>>>>, <<<<0>>, <<3>>, <<0>>>>}

FlowTorqueValues == {<<<<0>>, <<0>>, <<1>>>>, <<<<2>>, <<0>>, <<0>>>>}

\* line 14: self.body_flow_interactor.compute_flow_forces_and_torques()
compute_flow_forces_and_torques ==
    /\ apply_pc = "compute"
    /\ Len(flow_history) < MaxCalls
    /\ \E F \in FlowForceValues : \E T \in FlowTorqueValues :
          /\ body_flow_forces' = F
          /\ body_flow_torques' = T
          /\ flow_history' = Append(flow_history, <<F, T>>)
    /\ apply_log' = Append(apply_log, "compute_flow_forces_and_torques")
    /\ apply_pc' = "add_forces"
    /\ UNCHANGED <<system, system_before>>

\* an apply_forces that assigns the flow forces
AddFlowForces_assign ==
    /\ apply_pc = "add_forces"
    /\ system' = [system EXCEPT !.external_forces = body_flow_forces]
    /\ apply_log' = Append(apply_log, "external_forces")
    /\ apply_pc' = "add_torques"
    /\ UNCHANGED <<body_flow_forces, body_flow_torques, flow_history, system_before>>

\* line 15: system.external_forces += self.body_flow_interactor.body_flow_forces
AddFlowForces ==
    /\ apply_pc = "add_forces"
    /\ system' = [system EXCEPT !.external_forces = MatAdd(@, body_flow_forces)]
    /\ apply_log' = Append(apply_log, "external_forces")
    /\ apply_pc' = "add_torques"
    /\ UNCHANGED <<body_flow_forces, body_flow_torques, flow_history, system_before>>

\* line 16: system.external_torques += self.body_flow_interactor.body_flow_torques
AddFlowTorques ==
    /\ apply_pc = "add_torques"
    /\ system' = [system EXCEPT !.external_torques = MatAdd(@, body_flow_torques)]
    /\ apply_log' = Append(apply_log, "external_torques")
    /\ apply_pc' = "compute"
    /\ UNCHANGED <<body_flow_forces, body_flow_torques, flow_history, system_before>>

\* the accumulators hold what other forcing left in them
Systems ==
    [external_forces : {Zeros(rigid_body_dim, 1), <<<<5>>, <<5>>, <<5>>>>},
     external_torques : {Zeros(rigid_body_dim, 1), <<<<7>>, <<0>>, <<7>>>>},
     position_collection : {<<<<1>>, <<2>>, <<3>>>>},
     velocity_collection : {<<<<0>>, <<1>>, <<0>>>>},
     director_collection : Directors]

InitApply ==
    /\ ctor_pc = "constructed"
    /\ grid_topology = <<1, 1, 1>>
    /\ world_size = 1
    /\ rank_distribution_arg = grid_topology
    /\ rank_distribution = grid_topology
    /\ local_grid_size = <<1, 1, 1>>
    /\ global_grid_size = <<1, 1, 1>>
    /\ periodic_flag = FALSE
    /\ cart_created = TRUE
    /\ ghost_size = 0
    /\ local_field = <<>>
    /\ comm_requests = <<>>
    /\ completed = {}
    /\ eager_protocol = FALSE
    /\ eager_buffer = <<>>
    /\ pc = <<>>
    /\ master_rank = 0
    /\ slave_ranks = <<>>
    /\ loop_pos = 0
    /\ global_field = <<>>
    /\ ref_global_field = <<>>
    /\ in_flight = <<>>
    /\ gen_pc = "generate"
    /\ kernel_support = 0
    /\ returned_kernel_support = <<>>
    /\ invocation = 0
    /\ call_log = <<>>
    /\ program = <<>>
    /\ velocity_collection = <<>>
    /\ omega_collection = <<>>
    /\ velocity_field = <<>>
    /\ velocity_pc = "none"
    /\ comm_class = "none"
    /\ ghost_size_arg = 0
    /\ on_master = FALSE
    /\ life_pc = "none"
    /\ committed_types = <<>>
    /\ freed_types = <<>>
    /\ retired = <<>>
    /\ map_pc = "none"
    /\ marker_positions = <<>>
    /\ rank_positions = <<>>
    /\ classified = {}
    /\ local_indices = <<>>
    /\ scatter_map = <<>>
    /\ forcing_grid_cls = "none"
    /\ grid_dim_arg = 0
    /\ body = <<>>
    /\ interactor_pc = <<>>
    /\ forcing_grid = <<>>
    /\ grid_object = <<>>
    /\ body_flow_forces = Zeros(rigid_body_dim, 1)
    /\ body_flow_torques = Zeros(rigid_body_dim, 1)
    /\ lag_grid_forcing_field = <<>>
    /\ transfers = 0
    /\ system \in Systems
    /\ system_before = system
    /\ apply_pc = "compute"
    /\ apply_log = <<>>
    /\ flow_history = <<>>

applyFrame == <<topoVars, ghostVars, fieldVars, curlVars, lifeVars, queueVars, markerVars,
                forcing_grid_cls, grid_dim_arg, body, interactor_pc, forcing_grid,
                grid_object, lag_grid_forcing_field, transfers, velocityVars, matchVars>>

NextApply ==
    \/ compute_flow_forces_and_torques /\ UNCHANGED applyFrame
    \/ AddFlowForces /\ UNCHANGED applyFrame
    \/ AddFlowTorques /\ UNCHANGED applyFrame

SpecApply == InitApply /\ [][NextApply]_vars

\* ---- properties of apply_forces ----

apply_forces_statements ==
    <<"compute_flow_forces_and_torques", "external_forces", "external_torques">>

RECURSIVE HistorySum(_, _, _)
HistorySum(history, part, row) ==
    IF history = <<>> THEN 0
    ELSE Head(history)[part][row][1] + HistorySum(Tail(history), part, row)

CompletedCalls == Len(apply_log) \div 3

\* C22: apply_forces runs compute_flow_forces_and_torques, then adds to
\* external_forces, then to external_torques; between calls the accumulators
\* have grown by the sum of the flow forces and torques the calls computed
\* (n*F and n*T when these are constant), and every other field of the body
\* is as it was.
C22_ApplyForcesAccumulates ==
    /\ \A i \in 1..Len(apply_log) :
          apply_log[i] = apply_forces_statements[((i - 1) % 3) + 1]
    /\ \A fld \in DOMAIN system \ {"external_forces", "external_torques"} :
          system[fld] = system_before[fld]
    /\ apply_pc = "compute" =>
          \A row \in 1..rigid_body_dim :
              /\ system.external_forces[row][1] =
                     system_before.external_forces[row][1]
                     + HistorySum(flow_history, 1, row)
              /\ system.external_torques[row][1] =
                     system_before.external_torques[row][1]
                     + HistorySum(flow_history, 2, row)
              /\ (\A n \in 1..Len(flow_history) :
                      flow_history[n] = <<body_flow_forces, body_flow_torques>>) =>
                     /\ system.external_forces[row][1] =
                            system_before.external_forces[row][1]
                            + CompletedCalls * body_flow_forces[row][1]
                     /\ system.external_torques[row][1] =
                            system_before.external_torques[row][1]
                            + CompletedCalls * body_flow_torques[row][1]

C22_Witness ==
    /\ apply_pc = "compute"
    /\ CompletedCalls = 2
    /\ flow_history[1] = flow_history[2]
    /\ body_flow_forces = <<<<1>>, <<0>>, <<-2>>>>
    /\ system_before.external_forces = <<<<5>>, <<5>>, <<5>>>>
    /\ system.external_forces = <<<<7>>, <<5>>, <<1>>>>

\* =========================================================================
\*  TwoDimensionalCylinderForcingGrid.compute_lag_grid_velocity_field
\* =========================================================================
\* The cylinder's axis d3 lies along z, so its angular velocity has only a z
\* component; vectors are held as (x, y, z) and the grid fields per marker.

\* a velocity field that takes the local omega for the global one
compute_lag_grid_velocity_field_local_omega ==
    /\ velocity_pc \in {"stale", "computed"}
    /\ LET global_frame_omega_z == omega_collection[grid_dim_arg + 1]
       IN  velocity_field' =
             [m \in 1..grid_object.num_lag_nodes |->
                <<velocity_collection[1]
                    - global_frame_omega_z
                        * grid_object.global_frame_relative_position_field[m][2],
                  velocity_collection[2]
                    + global_frame_omega_z
                        * grid_object.global_frame_relative_position_field[m][1]>>]
    /\ velocity_pc' = "computed"
    /\ UNCHANGED <<velocity_collection, omega_collection>>

\* compute_lag_grid_velocity_field, lines 40-55
compute_lag_grid_velocity_field ==
    /\ velocity_pc \in {"stale", "computed"}
    /\ LET global_frame_omega_z ==
               body.director_collection[1][grid_dim_arg + 1][grid_dim_arg + 1]
                   * omega_collection[grid_dim_arg + 1]
       IN  velocity_field' =
             [m \in 1..grid_object.num_lag_nodes |->
                <<velocity_collection[1]
                    - global_frame_omega_z
                        * grid_object.global_frame_relative_position_field[m][2],
                  velocity_collection[2]
                    + global_frame_omega_z
                        * grid_object.global_frame_relative_position_field[m][1]>>]
    /\ velocity_pc' = "computed"
    /\ UNCHANGED <<velocity_collection, omega_collection>>

\* the velocities a cylinder may have
Velocities == {<<0, 0, 0>>, <<3, -5, 0>>, <<-2, 7, 0>>}

Omegas == {<<0, 0, 0>>, <<0, 0, 2>>, <<0, 0, -3>>}

\* the body library advances the cylinder between two calls
CylinderMoves ==
    /\ velocity_pc = "computed"
    /\ velocity_collection' \in Velocities
    /\ omega_collection' \in Omegas
    /\ <<velocity_collection', omega_collection'>> # <<velocity_collection, omega_collection>>
    /\ velocity_pc' = "stale"
    /\ UNCHANGED velocity_field

\* the state after CircularCylinderForcingGrid(grid_dim=2, rigid_body) and
\* compute_lag_grid_position_field, with velocity_field still zero
InitVelocity ==
    /\ ctor_pc = "constructed"
    /\ grid_topology = <<1, 1, 1>>
    /\ world_size = 1
    /\ rank_distribution_arg = grid_topology
    /\ rank_distribution = grid_topology
    /\ local_grid_size = <<1, 1, 1>>
    /\ global_grid_size = <<1, 1, 1>>
    /\ periodic_flag = FALSE
    /\ cart_created = TRUE
    /\ ghost_size = 0
    /\ local_field = <<>>
    /\ comm_requests = <<>>
    /\ completed = {}
    /\ eager_protocol = FALSE
    /\ eager_buffer = <<>>
    /\ pc = <<>>
    /\ master_rank = 0
    /\ slave_ranks = <<>>
    /\ loop_pos = 0
    /\ global_field = <<>>
    /\ ref_global_field = <<>>
    /\ in_flight = <<>>
    /\ gen_pc = "generate"
    /\ kernel_support = 0
    /\ returned_kernel_support = <<>>
    /\ invocation = 0
    /\ call_log = <<>>
    /\ program = <<>>
    /\ comm_class = "none"
    /\ ghost_size_arg = 0
    /\ on_master = FALSE
    /\ life_pc = "none"
    /\ committed_types = <<>>
    /\ freed_types = <<>>
    /\ retired = <<>>
    /\ map_pc = "none"
    /\ marker_positions = <<>>
    /\ rank_positions = <<>>
    /\ classified = {}
    /\ local_indices = <<>>
    /\ scatter_map = <<>>
    /\ forcing_grid_cls = "CircularCylinderForcingGrid"
    /\ grid_dim_arg = 2
    /\ body \in Bodies(forcing_grid_cls)
    /\ interactor_pc = <<>>
    /\ forcing_grid = <<>>
    /\ grid_object = CircularCylinderForcingGrid_init(grid_dim_arg, body)
    /\ body_flow_forces = <<>>
    /\ body_flow_torques = <<>>
    /\ lag_grid_forcing_field = <<>>
    /\ transfers = 0
    /\ system = <<>>
    /\ system_before = <<>>
    /\ apply_pc = "none"
    /\ apply_log = <<>>
    /\ flow_history = <<>>
    /\ velocity_collection \in Velocities
    /\ omega_collection \in Omegas
    /\ velocity_field = [m \in 1..grid_object.num_lag_nodes |-> <<0, 0>>]
    /\ velocity_pc = "stale"

velocityFrame == <<topoVars, ghostVars, fieldVars, curlVars, lifeVars, queueVars,
                   markerVars, forcingVars, applyVars, matchVars>>

NextVelocity ==
    \/ compute_lag_grid_velocity_field /\ UNCHANGED velocityFrame
    \/ CylinderMoves /\ UNCHANGED velocityFrame

SpecVelocity == InitVelocity /\ [][NextVelocity]_vars

\* ---- properties of the cylinder's velocity field ----

\* the cylinder's angular velocity about z in the global frame
OmegaZ == body.director_collection[1][3][3] * omega_collection[3]

\* C30: after compute_lag_grid_velocity_field every marker of the 2D
\* cylinder, at r = (r_x, r_y) from the centre in the global frame, has the
\* velocity v_x = V_x - omega_z r_y, v_y = V_y + omega_z r_x, with omega_z the
\* director entry [2, 2] times the local angular velocity about z.
C30_CylinderMarkerVelocity ==
    velocity_pc = "computed" =>
        /\ Len(velocity_field) = body.num_forcing_points
        /\ \A m \in 1..Len(velocity_field) :
              LET r == grid_object.global_frame_relative_position_field[m]
              IN  /\ velocity_field[m][1] = velocity_collection[1] - OmegaZ * r[2]
                  /\ velocity_field[m][2] = velocity_collection[2] + OmegaZ * r[1]

\* a turned-over cylinder with four markers spins and moves, and its velocity
\* field was recomputed after the body moved
C30_Witness ==
    /\ velocity_pc = "computed"
    /\ body.num_forcing_points = 4
    /\ body.director_collection[1][3][3] = -1
    /\ omega_collection = <<0, 0, 2>>
    /\ velocity_collection = <<3, -5, 0>>
    /\ \E m \in 1..4 : velocity_field[m] # <<3, -5>>
    /\ \E m, n \in 1..4 : velocity_field[m] # velocity_field[n]


\* =========================================================================
\*  compute_lag_grid_position_field before compute_lag_grid_velocity_field
\* =========================================================================
\* The grids of a cylinder, of a 3D rigid body and of a rod's surface.  A
\* body has one velocity and one angular velocity (local frame), which for a
\* rod every element shares; marker velocities are (x, y) for the cylinder
\* and (x, y, z) for the other two.

RefreshClasses ==
    {"CircularCylinderForcingGrid", "ThreeDimensionalRigidBodyForcingGrid",
     "CosseratRodSurfaceForcingGrid"}

ZeroVectors(n) == [m \in 1..n |-> <<0, 0, 0>>]

\* the grid's arrays as the constructor allocates them (np.zeros_like,
\* np.zeros), before compute_lag_grid_position_field has run
AllocatedGrid(cls, b) ==
    IF cls = "CosseratRodSurfaceForcingGrid"
    THEN [SurfaceLayout(b) EXCEPT
            !.moment_arm = ZeroVectors(SumSeq(surface_grid_points(b))),
            !.rod_director_collection_transpose =
                [i \in 1..b.n_elems |-> Zeros(3, 3)]]
    ELSE [NoGrid EXCEPT
            !.fields_allocated = TRUE,
            !.num_lag_nodes = b.num_forcing_points,
            !.global_frame_relative_position_field = ZeroVectors(b.num_forcing_points)]

\* the grid after compute_lag_grid_position_field: the relative positions
\* (moment arms) and, for the rod, the cached director transposes are taken
\* from the body's directors
lag_grid_position_field(cls, g, b) ==
    IF cls = "CircularCylinderForcingGrid"
    THEN [g EXCEPT !.global_frame_relative_position_field = CylinderGlobalFrame(b)]
    ELSE IF cls = "ThreeDimensionalRigidBodyForcingGrid"
    THEN [g EXCEPT !.global_frame_relative_position_field = RigidBodyGlobalFrame(b)]
    ELSE [g EXCEPT
            !.rod_director_collection_transpose =
                [i \in 1..b.n_elems |-> TransposeMat(b.director_collection[i])],
            !.moment_arm = SurfaceMomentArm(b)]

\* the velocity field compute_lag_grid_velocity_field writes, given the
\* grid's arrays g, the body b, its velocity v and its angular velocity w
lag_grid_velocity_field(cls, g, b, v, w) ==
    IF cls = "CircularCylinderForcingGrid"
    THEN LET global_frame_omega_z == b.director_collection[1][3][3] * w[3]
         IN  [m \in 1..g.num_lag_nodes |->
                <<v[1] - global_frame_omega_z
                            * g.global_frame_relative_position_field[m][2],
                  v[2] + global_frame_omega_z
                            * g.global_frame_relative_position_field[m][1]>>]
    ELSE IF cls = "ThreeDimensionalRigidBodyForcingGrid"
    THEN LET global_frame_omega == MatVec(TransposeMat(b.director_collection[1]), w)
         IN  [m \in 1..g.num_lag_nodes |->
                [k \in 1..3 |->
                    v[k] + CrossAt(global_frame_omega,
                                   g.global_frame_relative_position_field[m], k)]]
    ELSE [m \in 1..g.num_lag_nodes |->
            LET i == CHOOSE e \in 1..b.n_elems :
                         g.start_idx[e] < m /\ m <= g.end_idx[e]
                grid_point_omega == MatVec(g.rod_director_collection_transpose[i], w)
            IN  [k \in 1..3 |-> v[k] + CrossAt(grid_point_omega, g.moment_arm[m], k)]]

\* a constructor that computes the velocity field before the position field
ForcingGrid_construct_velocity_first(cls, b, v, w) ==
    [grid |-> lag_grid_position_field(cls, AllocatedGrid(cls, b), b),
     velocity_field |-> lag_grid_velocity_field(cls, AllocatedGrid(cls, b), b, v, w)]

\* the end of the constructors: compute_lag_grid_position_field(), then
\* compute_lag_grid_velocity_field()
ForcingGrid_construct(cls, b, v, w) ==
    LET g == lag_grid_position_field(cls, AllocatedGrid(cls, b), b)
    IN  [grid |-> g, velocity_field |-> lag_grid_velocity_field(cls, g, b, v, w)]

RefreshVelocities == {<<3, -5, 0>>}

\* a cylinder turns about z only
RefreshOmegas(cls) ==
    IF cls = "CircularCylinderForcingGrid" THEN {<<0, 0, 0>>, <<0, 0, 2>>}
    ELSE {<<0, 0, 2>>, <<1, 0, 0>>}

\* the constructor of the forcing grid
construct_forcing_grid ==
    /\ velocity_pc = "init"
    /\ LET made == ForcingGrid_construct(forcing_grid_cls, body,
                                         velocity_collection, omega_collection)
       IN  /\ grid_object' = made.grid
           /\ velocity_field' = made.velocity_field
    /\ velocity_pc' = "constructed"
    /\ UNCHANGED <<body, velocity_collection, omega_collection>>

\* the body library turns the body: its directors change
BodyTurns ==
    /\ velocity_pc # "init"
    /\ \E b \in Bodies(forcing_grid_cls) :
          /\ b # body
          /\ [b EXCEPT !.director_collection = body.director_collection] = body
          /\ body' = b
    /\ velocity_pc' = "turned"
    /\ UNCHANGED <<grid_object, velocity_field, velocity_collection, omega_collection>>

\* compute_lag_grid_position_field()
compute_position_field ==
    /\ velocity_pc # "init"
    /\ grid_object' = lag_grid_position_field(forcing_grid_cls, grid_object, body)
    /\ velocity_pc' = "positioned"
    /\ UNCHANGED <<body, velocity_field, velocity_collection, omega_collection>>

\* compute_lag_grid_velocity_field(); velocity_pc records whether the
\* position field was computed since the body last turned
compute_velocity_field ==
    /\ velocity_pc # "init"
    /\ velocity_field' = lag_grid_velocity_field(forcing_grid_cls, grid_object, body,
                                                 velocity_collection, omega_collection)
    /\ velocity_pc' = IF velocity_pc \in {"turned", "computed_stale"}
                      THEN "computed_stale" ELSE "computed"
    /\ UNCHANGED <<body, grid_object, velocity_collection, omega_collection>>

\* before the forcing grid is constructed
InitRefresh ==
    /\ ctor_pc = "constructed"
    /\ grid_topology = <<1, 1, 1>>
    /\ world_size = 1
    /\ rank_distribution_arg = grid_topology
    /\ rank_distribution = grid_topology
    /\ local_grid_size = <<1, 1, 1>>
    /\ global_grid_size = <<1, 1, 1>>
    /\ periodic_flag = FALSE
    /\ cart_created = TRUE
    /\ ghost_size = 0
    /\ local_field = <<>>
    /\ comm_requests = <<>>
    /\ completed = {}
    /\ eager_protocol = FALSE
    /\ eager_buffer = <<>>
    /\ pc = <<>>
    /\ master_rank = 0
    /\ slave_ranks = <<>>
    /\ loop_pos = 0
    /\ global_field = <<>>
    /\ ref_global_field = <<>>
    /\ in_flight = <<>>
    /\ gen_pc = "generate"
    /\ kernel_support = 0
    /\ returned_kernel_support = <<>>
    /\ invocation = 0
    /\ call_log = <<>>
    /\ program = <<>>
    /\ system = <<>>
    /\ system_before = <<>>
    /\ apply_pc = "none"
    /\ apply_log = <<>>
    /\ flow_history = <<>>
    /\ comm_class = "none"
    /\ ghost_size_arg = 0
    /\ on_master = FALSE
    /\ life_pc = "none"
    /\ committed_types = <<>>
    /\ freed_types = <<>>
    /\ retired = <<>>
    /\ map_pc = "none"
    /\ marker_positions = <<>>
    /\ rank_positions = <<>>
    /\ classified = {}
    /\ local_indices = <<>>
    /\ scatter_map = <<>>
    /\ forcing_grid_cls \in RefreshClasses
    /\ grid_dim_arg = IF forcing_grid_cls = "CircularCylinderForcingGrid" THEN 2 ELSE 3
    /\ body \in Bodies(forcing_grid_cls)
    /\ interactor_pc = <<>>
    /\ forcing_grid = <<>>
    /\ grid_object = NoGrid
    /\ body_flow_forces = <<>>
    /\ body_flow_torques = <<>>
    /\ lag_grid_forcing_field = <<>>
    /\ transfers = 0
    /\ velocity_collection \in RefreshVelocities
    /\ omega_collection \in RefreshOmegas(forcing_grid_cls)
    /\ velocity_field = <<>>
    /\ velocity_pc = "init"

refreshFrame == <<topoVars, ghostVars, fieldVars, curlVars, lifeVars, queueVars,
                  markerVars, applyVars, matchVars, forcing_grid_cls, grid_dim_arg,
                  interactor_pc, forcing_grid, body_flow_forces, body_flow_torques,
                  lag_grid_forcing_field, transfers>>

NextRefresh ==
    \/ construct_forcing_grid /\ UNCHANGED refreshFrame
    \/ BodyTurns /\ UNCHANGED refreshFrame
    \/ compute_position_field /\ UNCHANGED refreshFrame
    \/ compute_velocity_field /\ UNCHANGED refreshFrame

SpecRefresh == InitRefresh /\ [][NextRefresh]_vars

\* ---- properties of the order of the two computations ----

\* the grid's arrays agree with the body's directors
PositionsCurrent ==
    grid_object = lag_grid_position_field(forcing_grid_cls, grid_object, body)

\* the marker velocities of the body as it is oriented now
CurrentVelocities ==
    lag_grid_velocity_field(
        forcing_grid_cls, lag_grid_position_field(forcing_grid_cls, grid_object, body),
        body, velocity_collection, omega_collection)

====
